---------------------------- MODULE Spec2Model ----------------------------
(***************************************************************************)
(* FinanStar: bank-statement reclassification cases (case1, case2, case4,  *)
(* case7, case10, case11), the attachment loop of process_email and the    *)
(* output files of one attachment (case1, case9, case12).  Texts           *)
(* are sequences of one-character strings, codes and statement            *)
(* references are strings with explicit strip/upper tables, amounts and    *)
(* dates are <<v>> (a parsed value) or <<>> (None).  Amounts are counted   *)
(* in units of 1e-9, so the tolerance 1e-9 of the source is the number 1.  *)
(***************************************************************************)
EXTENDS Integers, Sequences, FiniteSets, TLC

VARIABLES
    caseKey,      \* which Case class handles the e-mail
    cfg,          \* content of config.json (rule sections of the case)
    dateRange,    \* requested range <<start, end>> or <<>> when none
    extracted,    \* the data rows read from the attachment
    rows,         \* the data rows being processed (worksheet rows / data_rows)
    before,       \* the data rows as they were before the latest pass
    passLog,      \* classification passes that have run, in order
    overrideSet,  \* row positions whose code an override rule has decided
    pc,           \* position in the processing of one attachment
    rendered,     \* rows written to the output detail sheet
    outcome,      \* what the attachment step handed to its caller
    batch,        \* attachments of the e-mail being processed
    cursor,       \* number of attachments of the batch already processed
    processed,    \* processed_files of process_email
    counters,     \* corrupted_files / files_with_invalid_range of process_email
    reply,        \* value returned by process_email
    failing,      \* sub-renderers that raise when they are called
    result_files, \* output files of the attachment built so far
    returned,     \* how the building of the output files ended
    sheet,        \* rows of cells of the worksheet given to the header locator
    row_idx,      \* row the header locator looks at next
    best_row,     \* best_row of _find_header_row (0 for None)
    best_matches, \* best_matches of _find_header_row
    data_end,     \* data_end_row of the data region (counted from the first data row)
    visited,      \* rows of the data region that the row loop has processed
    data_rows,    \* data_rows of the extraction loop (the sheet rows appended)
    empty_streak, \* empty_streak / blank_streak of the extraction loop
    summary_rows, \* positions of the records handed to _create_summary_workbook
    summary_ws,    \* rows appended to the accounting summary sheet
    config_reads, \* configurations the passes of the invocation have loaded
    config_writing, \* config.json is open for writing (truncated, not yet dumped)
    subject,      \* subject of the message given to find_matching_case
    allowed_cases, \* allowed_cases of find_matching_case ({} for None)
    matched_case, \* value returned by find_matching_case ("none" for None)
    description,  \* descripcion of the record written to a template row
    document_type, \* codigo of the record written to a template row
    account_config, \* providers and subtypes configured for the account
    provider_code, \* row[0] of the payment template row
    subtype_value, \* subtype cell of the bank template row
    monitoring,   \* self.monitoring of the window
    monitor_threads, \* where each thread started on monitor_emails is
    polls,        \* passes over the mailbox that the monitor threads have made
    mailbox,      \* the messages of INBOX: matches a case, \Seen flag, reply sent
    message_ids,  \* message_ids of the pass of check_and_process_emails under way
    msg_cursor,   \* position in message_ids of the message being processed
    msg_stage,    \* where check_and_process_emails is with that message
    mail_passes   \* calls of check_and_process_emails that have ended

vars == <<caseKey, cfg, dateRange, extracted, rows, before, passLog, overrideSet,
          pc, rendered, outcome, batch, cursor, processed, counters, reply,
          failing, result_files, returned,
          sheet, row_idx, best_row, best_matches, data_end, visited,
          data_rows, empty_streak, summary_rows, summary_ws,
          config_reads, config_writing, subject, allowed_cases, matched_case,
          description, document_type, account_config, provider_code, subtype_value,
          monitoring, monitor_threads, polls,
          mailbox, message_ids, msg_cursor, msg_stage, mail_passes>>

attachmentVars == <<extracted, rows, before, passLog, overrideSet, pc, rendered, outcome>>

batchVars == <<batch, cursor, processed, counters, reply>>

renderVars == <<failing, result_files, returned>>

scanVars == <<sheet, row_idx, best_row, best_matches>>

regionVars == <<data_end, visited>>

\* the variables of the steps modelled apart from the statement pipeline
extractVars == <<data_rows, empty_streak>>

summaryVars == <<summary_rows, summary_ws>>

configVars == <<config_reads, config_writing>>

\* the variables of the threads and look-ups around the pipeline
dispatchVars == <<subject, allowed_cases, matched_case>>

providerVars ==
    <<description, document_type, account_config, provider_code, subtype_value>>

monitorVars == <<monitoring, monitor_threads, polls>>

mailVars == <<mailbox, message_ids, msg_cursor, msg_stage, mail_passes>>

restVars == <<configVars, dispatchVars, providerVars, monitorVars, mailVars>>

laterVars == <<scanVars, regionVars, extractVars, summaryVars, restVars>>

ScanIdle ==
    /\ sheet = <<>>
    /\ row_idx = 0
    /\ best_row = 0
    /\ best_matches = 0

RegionIdle ==
    /\ data_end = 0
    /\ visited = {}

ExtractIdle ==
    /\ data_rows = <<>>
    /\ empty_streak = 0

SummaryIdle ==
    /\ summary_rows = <<>>
    /\ summary_ws = <<>>

ConfigIdle ==
    /\ config_reads = <<>>
    /\ config_writing = FALSE

DispatchIdle ==
    /\ subject = <<>>
    /\ allowed_cases = {}
    /\ matched_case = "none"

ProviderIdle ==
    /\ description = <<>>
    /\ document_type = <<>>
    /\ account_config = [providers |-> <<>>, subtypes |-> <<>>]
    /\ provider_code = <<>>
    /\ subtype_value = <<>>

MaxThreads == 3
MaxPolls == 2

MonitorIdle ==
    /\ monitoring = FALSE
    /\ monitor_threads = [t \in 1..MaxThreads |-> "unborn"]
    /\ polls = 0

MailIdle ==
    /\ mailbox = <<>>
    /\ message_ids = <<>>
    /\ msg_cursor = 0
    /\ msg_stage = "idle"
    /\ mail_passes = 0

RestIdle == ConfigIdle /\ DispatchIdle /\ ProviderIdle /\ MonitorIdle /\ MailIdle

LaterIdle == ScanIdle /\ RegionIdle /\ ExtractIdle /\ SummaryIdle /\ RestIdle

----------------------------------------------------------------------------
(* Bounds of the model *)

MaxRows == 2
MaxBatch == 2

(* Tolerance of the amount comparisons, in units of 1e-9 *)
EPS == 1

None == <<>>
Some(v) == <<v>>

----------------------------------------------------------------------------
(* Text helpers *)

RECURSIVE DropSpaces(_)
DropSpaces(t) ==
    IF t = <<>> THEN <<>>
    ELSE IF Head(t) = " " THEN DropSpaces(Tail(t))
    ELSE <<Head(t)>> \o DropSpaces(Tail(t))

RECURSIVE LStrip(_)
LStrip(t) == IF t # <<>> /\ Head(t) = " " THEN LStrip(Tail(t)) ELSE t

RECURSIVE RStrip(_)
RStrip(t) ==
    IF t # <<>> /\ t[Len(t)] = " " THEN RStrip(SubSeq(t, 1, Len(t) - 1)) ELSE t

Strip(t) == RStrip(LStrip(t))

\* unicodedata NFKD + dropping combining marks, then lower(), per character
\* ("^" stands for an accented a)
FoldChar(ch) ==
    CASE ch = "A" -> "a"
      [] ch = "B" -> "b"
      [] ch = "C" -> "c"
      [] ch = "^" -> "a"
      [] OTHER -> ch

Fold(t) == [i \in 1..Len(t) |-> FoldChar(t[i])]

\* case1._normalize_text (inherited by case2 and case4): lower().strip()
normalize_text_strip(t) == Strip(Fold(t))

\* case7/case10/case11._normalize_text: lower().replace(' ', '')
normalize_text_nospace(t) == DropSpaces(Fold(t))

normalize_text(k, t) ==
    IF k \in {"case1", "case2", "case4"} THEN normalize_text_strip(t)
    ELSE normalize_text_nospace(t)

\* Python's "s in t" on strings
Contains(t, s) ==
    \E i \in 0..(Len(t) - Len(s)) : SubSeq(t, i + 1, i + Len(s)) = s

\* str(code).strip() and .upper() on the codes of the model
strip_code(c) ==
    CASE c = " wd" -> "wd"
      [] OTHER -> c

upper_code(c) ==
    CASE c = "wd" -> "WD"
      [] c = "pp" -> "PP"
      [] c = "kc" -> "KC"
      [] c = "o/c" -> "O/C"
      [] c = " wd" -> " WD"
      [] OTHER -> c

code_key(c) == upper_code(strip_code(c))

\* str(reference).strip()
strip_ref(r) ==
    CASE r = "R1 " -> "R1"
      [] OTHER -> r

\* case4/case7/case10/case11._to_number: None becomes 0.0
to_number(a) == IF a = None THEN 0 ELSE a[1]

\* case1._is_positive
is_positive(a) == a # None /\ a[1] > EPS

MapGet(m, key) == IF key \in DOMAIN m THEN m[key] ELSE ""

----------------------------------------------------------------------------
(* Configuration store (config_manager.py) *)

DEFAULT_POSITIVE_DEBIT_CODES ==
    ("DP" :> "DEP") @@ ("TF" :> "T/D") @@ ("WD" :> "T/D") @@ ("3V" :> "O/D")
    @@ ("3Y" :> "TEF") @@ ("PE" :> "T/D") @@ ("MD" :> "T/D") @@ ("PT" :> "T/D")

DEFAULT_NON_NEGATIVE_CREDIT_CODES ==
    ("DP" :> "DEP") @@ ("AR" :> "DEP") @@ ("TF" :> "T/C") @@ ("MC" :> "T/C")
    @@ ("PP" :> "T/C") @@ ("WC" :> "T/C")

\* 'PENDIENTE EN CAMARA DCD' is the text <<"A", " ", "B">> of the model
DEFAULT_DESCRIPTION_OVERRIDES ==
    << [search_text |-> <<"A", " ", "B">>, code |-> "O/C"] >>

\* {strip().upper() of key and value, for the pairs with both non-blank}
CleanMap(stored) ==
    LET ks == {kk \in DOMAIN stored : strip_code(kk) # "" /\ strip_code(stored[kk]) # ""}
    IN  [nk \in {code_key(kk) : kk \in ks} |->
            code_key(stored[CHOOSE kk \in ks : code_key(kk) = nk])]

get_positive_debit_code_map(c) ==
    IF "positive_debits" \in c.stored
    THEN CleanMap(c.positive_debits)
    ELSE DEFAULT_POSITIVE_DEBIT_CODES

get_non_negative_credit_code_map(c) ==
    IF "non_negative_credits" \in c.stored
    THEN CleanMap(c.non_negative_credits)
    ELSE DEFAULT_NON_NEGATIVE_CREDIT_CODES

get_description_override_rules(c) ==
    IF "description_overrides" \in c.stored
    THEN [i \in 1..Len(c.description_overrides) |->
            [search_text |-> Strip(c.description_overrides[i].search_text),
             code |-> code_key(c.description_overrides[i].code)]]
    ELSE DEFAULT_DESCRIPTION_OVERRIDES

CleanEntry(e) == [search_text |-> Strip(e.search_text), code |-> strip_code(e.code)]

EntryKept(e) == e.search_text # <<>> /\ e.code # ""

clean_entries(entries) ==
    SelectSeq([i \in 1..Len(entries) |-> CleanEntry(entries[i])], EntryKept)

\* _get_case_specific_codification_rules
get_case_codification_rules(c) ==
    [debit |-> clean_entries(c.codification.debit),
     credit |-> clean_entries(c.codification.credit)]

----------------------------------------------------------------------------
(* Classification passes.  A row is                                        *)
(* [date, code, desc, ref, debit, credit]; case11 sheets have no Debitos   *)
(* column, so a case11 row never carries a debit.                          *)

SetMin(S) == CHOOSE x \in S : \A y \in S : x <= y

\* position of the first rule whose search text occurs in the text, or 0
FirstMatch(rules, text) ==
    LET hits == {i \in 1..Len(rules) :
                    /\ rules[i].search_text # <<>>
                    /\ rules[i].code # ""
                    /\ Contains(text, rules[i].search_text)}
    IN  IF hits = {} THEN 0 ELSE SetMin(hits)

\* _match_codification
match_codification(normalized_description, rules) ==
    LET j == FirstMatch(rules, normalized_description)
    IN  IF j = 0 THEN "" ELSE rules[j].code

PreparedRule(k, e) ==
    [search_text |-> normalize_text(k, e.search_text), code |-> strip_code(e.code)]

\* _get_codification_rules
get_codification_rules(k, c) ==
    LET raw == get_case_codification_rules(c)
        prep(entries) ==
            SelectSeq([i \in 1..Len(entries) |-> PreparedRule(k, entries[i])], EntryKept)
    IN  [debit |-> prep(raw.debit), credit |-> prep(raw.credit)]

\* case11 sheets have no Debitos column; case2 deletes it (_remove_debit_column)
HasDebitColumn(k) == k \notin {"case11", "case2"}

\* debit rules reserved for rows without a positive credit
debit_codification_without_credit(k, row, normalized_description, rules) ==
    LET debit_amount == IF HasDebitColumn(k) THEN to_number(row.debit) ELSE 0
    IN  IF ~(to_number(row.credit) > 0) /\ debit_amount > 0
        THEN match_codification(normalized_description, rules.debit)
        ELSE ""

\* _determine_codification, when the credit rules found nothing
debit_codification(k, row, normalized_description, rules) ==
    LET debit_amount == IF HasDebitColumn(k) THEN to_number(row.debit) ELSE 0
    IN  IF debit_amount > 0
        THEN match_codification(normalized_description, rules.debit)
        ELSE ""

\* codification that looks at the debit rules before the credit rules
determine_codification_debit_first(k, row, rules) ==
    LET normalized_description == normalize_text(k, row.desc)
        debit_code == match_codification(normalized_description, rules.debit)
    IN  IF normalized_description = <<>> THEN ""
        ELSE IF debit_code # "" THEN debit_code
        ELSE match_codification(normalized_description, rules.credit)

\* _determine_codification
determine_codification(k, row, rules) ==
    LET normalized_description == normalize_text(k, row.desc)
        credit_amount == to_number(row.credit)
        credit_code == IF credit_amount > 0
                       THEN match_codification(normalized_description, rules.credit)
                       ELSE ""
    IN  IF normalized_description = <<>> THEN ""
        ELSE IF credit_code # "" THEN credit_code
        ELSE debit_codification(k, row, normalized_description, rules)

\* the else branch of _assign_codes_by_description
unmatched_code(k, row) == IF k = "case10" THEN "" ELSE row.code

\* _assign_codes_by_description
assign_codes_by_description(k, rws, c) ==
    LET rules == get_codification_rules(k, c)
    IN  [i \in 1..Len(rws) |->
            LET code == determine_codification(k, rws[i], rules)
            IN  IF code # "" THEN [rws[i] EXCEPT !.code = code]
                ELSE [rws[i] EXCEPT !.code = unmatched_code(k, rws[i])]]

\* a row test that looks at one amount only
sign_of_one_amount(this_amount, other_amount) == to_number(this_amount) > EPS

\* the row test of the two sign-exclusive remaps: this amount > 1e-9 and the
\* other one not
sign_exclusive(this_amount, other_amount) ==
    /\ to_number(this_amount) > EPS
    /\ ~(to_number(other_amount) > EPS)

\* a row loop body that gives a record without code a replacement of the map
remap_code_filling_empty(k, code, replacement_map) ==
    LET current_code == code_key(code)
        new_code == MapGet(replacement_map, current_code)
    IN  IF code = ""
        THEN replacement_map[CHOOSE key \in DOMAIN replacement_map : TRUE]
        ELSE IF new_code = "" \/ current_code = new_code THEN code ELSE new_code

\* body of the row loop of _update_codes_for_positive_debits /
\* _update_codes_for_non_negative_credits
remap_code(k, code, replacement_map) ==
    LET current_code == code_key(code)
        new_code == MapGet(replacement_map, current_code)
    IN  IF code = "" \/ current_code = "" \/ new_code = "" THEN code
        ELSE IF k = "case1"
             THEN (IF code # new_code THEN new_code ELSE code)
             ELSE (IF current_code # new_code THEN new_code ELSE code)

update_codes_for_positive_debits(k, rws, c) ==
    LET replacement_map == get_positive_debit_code_map(c)
    IN  IF ~HasDebitColumn(k) \/ DOMAIN replacement_map = {} THEN rws
        ELSE [i \in 1..Len(rws) |->
                IF sign_exclusive(rws[i].debit, rws[i].credit)
                THEN [rws[i] EXCEPT !.code = remap_code(k, @, replacement_map)]
                ELSE rws[i]]

update_codes_for_non_negative_credits(k, rws, c) ==
    LET replacement_map == get_non_negative_credit_code_map(c)
        debit(row) == IF HasDebitColumn(k) THEN row.debit ELSE None
    IN  IF DOMAIN replacement_map = {} THEN rws
        ELSE [i \in 1..Len(rws) |->
                IF sign_exclusive(rws[i].credit, debit(rws[i]))
                THEN [rws[i] EXCEPT !.code = remap_code(k, @, replacement_map)]
                ELSE rws[i]]

NormalizedOverride(k, rule) ==
    [search_text |-> normalize_text(k, rule.search_text), code |-> code_key(rule.code)]

\* normalized_rules of _override_codes_by_description
normalized_override_rules(k, c) ==
    LET rules == get_description_override_rules(c)
    IN  SelectSeq([i \in 1..Len(rules) |-> NormalizedOverride(k, rules[i])], EntryKept)

\* the last rule whose search text occurs in the description, or 0
last_override_rule(rules, normalized_description) ==
    LET hits == {i \in 1..Len(rules) :
                    Contains(normalized_description, rules[i].search_text)}
    IN  IF hits = {} THEN 0 ELSE CHOOSE x \in hits : \A y \in hits : y <= x

\* the rule the inner loop of _override_codes_by_description stops at, or 0
override_rule(rules, normalized_description) ==
    FirstMatch(rules, normalized_description)

\* _override_codes_by_description
override_codes_by_description(k, rws, c) ==
    LET rules == normalized_override_rules(k, c)
    IN  [i \in 1..Len(rws) |->
            LET j == override_rule(rules, normalize_text(k, rws[i].desc))
            IN  IF j = 0 \/ code_key(rws[i].code) = rules[j].code THEN rws[i]
                ELSE [rws[i] EXCEPT !.code = rules[j].code]]

\* rows an override rule decides
override_hits(k, rws, c) ==
    LET rules == normalized_override_rules(k, c)
    IN  {i \in 1..Len(rws) : override_rule(rules, normalize_text(k, rws[i].desc)) # 0}

\* "Comision bancaria " of _process_duplicate_references
COMMISSION_PREFIX == <<"C", " ">>

\* reference_groups of _process_duplicate_references: the rows sharing the
\* stripped reference of row i
reference_group(rws, i) ==
    {j \in 1..Len(rws) : /\ strip_ref(rws[j].ref) # ""
                         /\ strip_ref(rws[j].ref) = strip_ref(rws[i].ref)}

\* the other row of a group of exactly two, or 0
pair_partner(rws, i) ==
    LET g == reference_group(rws, i)
    IN  IF i \in g /\ Cardinality(g) = 2 THEN CHOOSE j \in g : j # i ELSE 0

\* a pairing that re-codes the pair and leaves the descriptions alone
process_duplicate_references_codes_only(rws) ==
    [i \in 1..Len(rws) |->
        LET j == pair_partner(rws, i)
            mine == code_key(rws[i].code)
            other == IF j = 0 THEN "" ELSE code_key(rws[j].code)
        IN  IF j = 0 THEN rws[i]
            ELSE IF mine \in {"WD", "WC"} /\ other = "3V"
                 THEN [rws[i] EXCEPT !.code = IF mine = "WD" THEN "T/D" ELSE "T/C"]
            ELSE IF mine = "3V" /\ other \in {"WD", "WC"}
                 THEN [rws[i] EXCEPT !.code = "O/D"]
            ELSE rws[i]]

\* a pairing that recognises the pair only with the WD/WC row first
process_duplicate_references_primary_first(rws) ==
    [i \in 1..Len(rws) |->
        LET j == pair_partner(rws, i)
            mine == code_key(rws[i].code)
            other == IF j = 0 THEN "" ELSE code_key(rws[j].code)
        IN  IF j = 0 THEN rws[i]
            ELSE IF mine \in {"WD", "WC"} /\ other = "3V" /\ i < j
                 THEN [rws[i] EXCEPT !.code = IF mine = "WD" THEN "T/D" ELSE "T/C"]
            ELSE IF mine = "3V" /\ other \in {"WD", "WC"} /\ j < i
                 THEN [rws[i] EXCEPT !.code = "O/D",
                                     !.desc = COMMISSION_PREFIX \o Strip(rws[j].desc)]
            ELSE rws[i]]

\* _process_duplicate_references
process_duplicate_references(rws) ==
    [i \in 1..Len(rws) |->
        LET j == pair_partner(rws, i)
            mine == code_key(rws[i].code)
            other == IF j = 0 THEN "" ELSE code_key(rws[j].code)
        IN  IF j = 0 THEN rws[i]
            ELSE IF mine \in {"WD", "WC"} /\ other = "3V"
                 THEN [rws[i] EXCEPT !.code = IF mine = "WD" THEN "T/D" ELSE "T/C"]
            ELSE IF mine = "3V" /\ other \in {"WD", "WC"}
                 THEN [rws[i] EXCEPT !.code = "O/D",
                                     !.desc = COMMISSION_PREFIX \o Strip(rws[j].desc)]
            ELSE rws[i]]

\* grouped_rows of _resolve_duplicate_reference_codes: the PP rows sharing the
\* stripped reference of row i
pp_group(rws, i) ==
    {j \in 1..Len(rws) : /\ code_key(rws[j].code) = "PP"
                         /\ rws[j].ref # ""
                         /\ strip_ref(rws[j].ref) = strip_ref(rws[i].ref)}

\* a sort key that puts the later of two rows with equal amounts first
entry_before_later_row_first(rws, a, b) ==
    \/ rws[a].debit[1] < rws[b].debit[1]
    \/ rws[a].debit[1] = rws[b].debit[1] /\ a >= b

\* the sort key (amount, row) of _resolve_duplicate_reference_codes
entry_before(rws, a, b) ==
    \/ rws[a].debit[1] < rws[b].debit[1]
    \/ rws[a].debit[1] = rws[b].debit[1] /\ a <= b

lowest_entry(rws, valid) == CHOOSE a \in valid : \A b \in valid : entry_before(rws, a, b)

highest_entry(rws, valid) == CHOOSE a \in valid : \A b \in valid : entry_before(rws, b, a)

\* _resolve_duplicate_reference_codes
resolve_duplicate_reference_codes(k, rws) ==
    [i \in 1..Len(rws) |->
        LET g == pp_group(rws, i)
            valid == {j \in g : rws[j].debit # None}
        IN  IF ~HasDebitColumn(k) \/ i \notin valid THEN rws[i]
            ELSE IF Cardinality(valid) < 2
                 THEN (IF is_positive(rws[i].debit)
                       THEN [rws[i] EXCEPT !.code = "T/D"] ELSE rws[i])
            ELSE IF i = lowest_entry(rws, valid) THEN [rws[i] EXCEPT !.code = "O/D"]
            ELSE IF i = highest_entry(rws, valid) THEN [rws[i] EXCEPT !.code = "T/D"]
            ELSE rws[i]]

\* the classification calls in the order duplicate-reference work (pairing and
\* tie-break) first, sign remaps after it
PassOrderPairingFirst(k) ==
    CASE k = "case1" ->
            <<"pairing", "tiebreak", "remap_debit", "remap_credit", "override">>
      [] k = "case2" ->
            <<"pairing", "tiebreak", "remap_credit", "override">>
      [] k \in {"case7", "case11"} ->
            <<"codify", "remap_debit", "remap_credit", "override">>
      [] OTHER -> <<"codify">>

\* the classification calls with the description override ahead of the sign
\* remaps
PassOrderOverrideEarly(k) ==
    CASE k = "case1" ->
            <<"pairing", "override", "remap_debit", "remap_credit", "tiebreak">>
      [] k = "case2" ->
            <<"pairing", "override", "remap_credit", "tiebreak">>
      [] k \in {"case7", "case11"} ->
            <<"codify", "override", "remap_debit", "remap_credit">>
      [] OTHER -> <<"codify">>

\* The classification calls of each case, in the order of the code:
\* case1 _create_formatted_workbook and _apply_styles, case4 and case10
\* _create_redesigned_workbook, case7 and case11 _create_redesigned_workbook
\* and _apply_code_replacement_rules.
PassOrder(k) ==
    CASE k = "case1" ->
            <<"pairing", "remap_debit", "remap_credit", "tiebreak", "override">>
      [] k = "case2" ->
            <<"pairing", "remap_credit", "tiebreak", "override">>
      [] k \in {"case7", "case11"} ->
            <<"codify", "remap_debit", "remap_credit", "override">>
      [] OTHER -> <<"codify">>

ApplyPass(k, p, rws, c) ==
    CASE p = "codify" -> assign_codes_by_description(k, rws, c)
      [] p = "pairing" -> process_duplicate_references(rws)
      [] p = "remap_debit" -> update_codes_for_positive_debits(k, rws, c)
      [] p = "remap_credit" -> update_codes_for_non_negative_credits(k, rws, c)
      [] p = "tiebreak" -> resolve_duplicate_reference_codes(k, rws)
      [] p = "override" -> override_codes_by_description(k, rws, c)

----------------------------------------------------------------------------
(* Date filter.  A date range is None or <<start, end>>; a row's date is   *)
(* None when the cell does not parse.                                      *)

\* start/end of the filter: case1, case2, case4 and case7 swap inverted
\* endpoints, case10 and case11 use them as given
range_bounds(k, range) ==
    IF k \notin {"case10", "case11"} /\ range[1] > range[2]
    THEN <<range[2], range[1]>>
    ELSE range

in_range(k, date, range) ==
    LET b == range_bounds(k, range)
    IN  b[1] <= date[1] /\ date[1] <= b[2]

\* only case4 drops a row whose date does not parse
keeps_unparsable(k) == k # "case4"

\* a filter that parses the dates even when no range was requested
filter_rows_without_range_test(k, rws, range) ==
    LET keep(row) == IF row.date = None THEN keeps_unparsable(k)
                     ELSE range = None \/ in_range(k, row.date, range)
    IN  SelectSeq(rws, keep)

\* _filter_rows_by_date_range / _filter_data_rows_by_date_range
filter_rows_by_date_range(k, rws, range) ==
    LET keep(row) == IF row.date = None THEN keeps_unparsable(k)
                     ELSE in_range(k, row.date, range)
    IN  IF range = None THEN rws ELSE SelectSeq(rws, keep)

\* rows_in_range of case1/case2 _filter_rows_by_date_range
rows_in_range(k, rws, range) ==
    Cardinality({i \in 1..Len(rws) : rws[i].date # None /\ in_range(k, rws[i].date, range)})

is_zero(amount) == amount = None \/ (amount[1] < EPS /\ -amount[1] < EPS)

\* _remove_zero_credit_rows (case1, case2)
remove_zero_credit_rows(k, rws) ==
    LET debit(row) == IF HasDebitColumn(k) THEN row.debit ELSE None
        moved(row) == ~(is_zero(debit(row)) /\ is_zero(row.credit))
    IN  SelectSeq(rws, moved)

\* what reaches the classification calls
rows_after_filter(k, rws, range) ==
    IF k \in {"case1", "case2"}
    THEN remove_zero_credit_rows(k, filter_rows_by_date_range(k, rws, range))
    ELSE filter_rows_by_date_range(k, rws, range)

\* the statement is given up for want of rows in the range: case2 raises
\* DateRangeNotFoundError, case7/case10/case11 return None; case1 and case4
\* log a warning and go on
gives_up_after_filter(k, rws, range) ==
    /\ range # None
    /\ rws # <<>>
    /\ CASE k = "case2" -> rows_in_range(k, rws, range) = 0
         [] k \in {"case7", "case10", "case11"} ->
                filter_rows_by_date_range(k, rws, range) = <<>>
         [] OTHER -> FALSE

\* all classification calls of a case, applied from the first
RECURSIVE ApplyPasses(_, _, _, _)
ApplyPasses(k, passes, rws, c) ==
    IF passes = <<>> \/ rws = <<>> THEN rws
    ELSE ApplyPasses(k, Tail(passes), ApplyPass(k, Head(passes), rws, c), c)

----------------------------------------------------------------------------
(* Inputs: statements and configurations the cases are run on.  The       *)
(* configurations hold no row-removal keywords (case11                     *)
(* _get_removal_configuration), so no row is dropped between the date      *)
(* filter and the classification calls of case11.                          *)

Cases == {"case1", "case2", "case4", "case7", "case10", "case11"}

Row(date, code, desc, ref, debit, credit) ==
    [date |-> date, code |-> code, desc |-> desc, ref |-> ref,
     debit |-> debit, credit |-> credit]

\* movements of one day, varying in code, description, reference and amounts
RowPool ==
    { Row(Some(2), "WD", <<"B", " ">>, "R1", Some(5), None),
      Row(Some(2), "3V", <<"A">>, "R1 ", Some(3), None),
      Row(Some(2), "PP", <<"B">>, "R2", Some(5), None),
      Row(Some(2), "PP", <<"C">>, "R2", Some(3), None),
      Row(Some(2), "pp", <<"B">>, "", None, Some(5)),
      Row(Some(2), "pp", <<"B">>, "", Some(5), Some(5)),
      Row(Some(2), "", <<"B">>, "", Some(5), Some(5)),
      Row(Some(2), "WD", <<"A", " ", "B">>, "", None, Some(5)),
      Row(Some(2), " wd", <<"C">>, "", Some(5), None),
      Row(Some(2), "WD", <<"^">>, "", Some(0), Some(1)),
      Row(Some(2), "KC", <<>>, "", None, Some(5)),
      Row(Some(2), "WC", <<" ", "B">>, "R1", None, Some(5)),
      Row(Some(2), "", <<"C">>, "", Some(5), None),
      Row(Some(2), "PP", <<"C">>, "R2", Some(5), None) }

\* one movement on each of three days, and one whose date does not parse
DatedPool ==
    { Row(d, "WD", <<"B">>, "", Some(5), None) : d \in {None, Some(1), Some(2), Some(3)} }

Ranges == {None, <<1, 1>>, <<2, 3>>, <<3, 2>>}

Rule(search_text, code) == [search_text |-> search_text, code |-> code]

\* config.json without rule sections for the case: the defaults apply
cfgDefault ==
    [stored |-> {},
     positive_debits |-> <<>>,
     non_negative_credits |-> <<>>,
     description_overrides |-> <<>>,
     codification |-> [debit |-> <<Rule(<<"B">>, "KD")>>,
                       credit |-> <<Rule(<<"A">>, "KC")>>]]

\* rule sections edited by the user
cfgCustom ==
    [stored |-> {"positive_debits", "non_negative_credits", "description_overrides"},
     positive_debits |-> (" wd" :> "T/D"),
     non_negative_credits |-> ("KC" :> "DEP") @@ ("PP" :> "T/C"),
     description_overrides |-> <<Rule(<<"B">>, "pp"), Rule(<<"A">>, "O/C")>>,
     codification |-> [debit |-> <<Rule(<<"A">>, "KD")>>,
                       credit |-> <<Rule(<<" ">>, "KD"), Rule(<<"B", " ">>, "KC")>>]]

\* rule sections present and empty
cfgEmpty ==
    [stored |-> {"positive_debits", "non_negative_credits", "description_overrides"},
     positive_debits |-> <<>>,
     non_negative_credits |-> <<>>,
     description_overrides |-> <<>>,
     codification |-> [debit |-> <<>>, credit |-> <<>>]]

Configs == {cfgDefault, cfgCustom, cfgEmpty}

Statements(pool) == UNION {[1..n -> pool] : n \in 1..MaxRows}

----------------------------------------------------------------------------
(* Processing of one attachment: filter, classification calls, output *)

AttachmentStart(k, c, range, rws) ==
    /\ caseKey = k
    /\ cfg = c
    /\ dateRange = range
    /\ extracted = rws
    /\ rows = rws
    /\ before = rws
    /\ passLog = <<>>
    /\ overrideSet = {}
    /\ pc = "filter"
    /\ rendered = <<>>
    /\ outcome = "pending"

BatchIdle ==
    /\ batch = <<>>
    /\ cursor = 0
    /\ processed = <<>>
    /\ counters = [corrupted_files |-> 0, files_with_invalid_range |-> 0]
    /\ reply = [body |-> "idle", attachments |-> <<>>]

RenderIdle ==
    /\ failing = {}
    /\ result_files = <<>>
    /\ returned = "idle"

Init ==
    /\ RenderIdle
    /\ LaterIdle
    /\ \E k \in Cases :
          \/ \E c \in Configs, rws \in Statements(RowPool) :
                AttachmentStart(k, c, None, rws)
          \/ \E range \in Ranges, rws \in Statements(DatedPool) :
                AttachmentStart(k, cfgDefault, range, rws)
    /\ BatchIdle

\* a filter call that could also come once the attachment is done
filter_call_at_any_point(p) == p \in {"filter", "done"}

\* the one place of the filter call: on the rows just read, ahead of every
\* classification call and of the writing of the output
filter_call_point(p) == p = "filter"

\* the date filter of the case; the attachment is given up here when the
\* case does so
FilterRows ==
    /\ filter_call_point(pc)
    /\ rows' = filter_rows_by_date_range(caseKey, rows, dateRange)
    /\ before' = rows'
    /\ IF gives_up_after_filter(caseKey, rows, dateRange)
       THEN outcome' = "empty_after_filter" /\ pc' = "done"
       ELSE /\ outcome' = outcome
            /\ pc' = IF caseKey \in {"case1", "case2"} THEN "zero_rows" ELSE "classify"
    /\ UNCHANGED <<caseKey, cfg, dateRange, extracted, passLog, overrideSet, rendered>>
    /\ UNCHANGED batchVars
    /\ UNCHANGED renderVars
    /\ UNCHANGED laterVars

\* case1/case2: the rows without movement are removed after the date filter
RemoveZeroCreditRows ==
    /\ pc = "zero_rows"
    /\ rows' = remove_zero_credit_rows(caseKey, rows)
    /\ before' = rows'
    /\ pc' = "classify"
    /\ UNCHANGED <<caseKey, cfg, dateRange, extracted, passLog, overrideSet, rendered, outcome>>
    /\ UNCHANGED batchVars
    /\ UNCHANGED renderVars
    /\ UNCHANGED laterVars

\* the next classification call of the case
RunPass ==
    /\ pc = "classify"
    /\ rows # <<>>
    /\ Len(passLog) < Len(PassOrder(caseKey))
    /\ LET p == PassOrder(caseKey)[Len(passLog) + 1]
       IN  /\ rows' = ApplyPass(caseKey, p, rows, cfg)
           /\ before' = rows
           /\ passLog' = Append(passLog, p)
           /\ overrideSet' = IF p = "override"
                             THEN overrideSet \cup override_hits(caseKey, rows, cfg)
                             ELSE overrideSet
    /\ UNCHANGED <<caseKey, cfg, dateRange, extracted, pc, rendered, outcome>>
    /\ UNCHANGED batchVars
    /\ UNCHANGED renderVars
    /\ UNCHANGED laterVars

\* the output workbook(s) are written and returned
Render ==
    /\ pc = "classify"
    /\ rows = <<>> \/ Len(passLog) = Len(PassOrder(caseKey))
    /\ rendered' = rows
    /\ outcome' = "artifacts"
    /\ pc' = "done"
    /\ UNCHANGED <<caseKey, cfg, dateRange, extracted, rows, before, passLog, overrideSet>>
    /\ UNCHANGED batchVars
    /\ UNCHANGED renderVars
    /\ UNCHANGED laterVars

Next == FilterRows \/ RemoveZeroCreditRows \/ RunPass \/ Render

Spec == Init /\ [][Next]_vars

----------------------------------------------------------------------------
(* process_email: the loop over the Excel attachments of one e-mail.  An   *)
(* attachment is a readable statement ("sheet", with its data rows), a     *)
(* file that is not a valid workbook ("corrupted") or a workbook in which  *)
(* the expected column names are not found ("unrecognized", with the rows  *)
(* of cells it holds).                                                     *)

Attachment(kind, rws) == [kind |-> kind, rws |-> rws]

\* cases whose _create_redesigned_workbook answers 'CORRUPTED'
ReportsCorrupted(k) == k \in {"case7", "case10", "case11"}

\* cases that give up on a workbook in which they find no statement table:
\* case4 and case7 look for the header row, case10 and case11 for movement
\* rows below the fixed header
RejectsUnrecognized(k) == k \in {"case4", "case7", "case10", "case11"}

\* cases that look for the header row of the statement table by its names
FindsHeaderRow(k) == k \in {"case4", "case7"}

\* cases that read the cells at fixed positions, whatever the sheet calls them
ReadsByPosition(k) == k \in {"case10", "case11"}

\* a row of cells of a sheet that has none of the expected column names
UnlabelledPool == {Row(Some(2), "WD", <<"B">>, "", Some(5), None)}

AttachmentPool(k) ==
    {Attachment("corrupted", <<>>)}
    \cup (IF RejectsUnrecognized(k) THEN {Attachment("unrecognized", <<>>)} ELSE {})
    \cup {Attachment("unrecognized", <<r>>) : r \in UnlabelledPool}
    \cup {Attachment("sheet", <<r>>) : r \in DatedPool}

Batches(k) == UNION {[1..n -> AttachmentPool(k)] : n \in 1..MaxBatch}

\* _enhance_excel_attachment / _redesign_excel_attachment: what the loop gets
\* for one attachment
attachment_result(k, c, range, att) ==
    CASE att.kind = "corrupted" ->
            [tag |-> IF ReportsCorrupted(k) THEN "CORRUPTED" ELSE "NONE", rws |-> <<>>]
      [] att.kind = "unrecognized" /\ (att.rws = <<>> \/ FindsHeaderRow(k)) ->
            [tag |-> "NONE", rws |-> <<>>]
      [] att.kind = "unrecognized" /\ ~ReadsByPosition(k) ->
            \* case1/case2: every step that needs a named column returns
            \* without it, the copied cells are saved as they are
            [tag |-> "FILES", rws |-> att.rws]
      [] OTHER ->
            IF gives_up_after_filter(k, att.rws, range)
            THEN [tag |-> IF k = "case2" THEN "RANGE_ERROR" ELSE "NONE", rws |-> <<>>]
            ELSE [tag |-> "FILES",
                  rws |-> ApplyPasses(k, PassOrder(k),
                                      rows_after_filter(k, att.rws, range), c)]

LoopStart ==
    [processed |-> <<>>, corrupted_files |-> 0, files_with_invalid_range |-> 0]

\* body of the loop over excel_attachments, for the attachment at position n
loop_step(k, c, range, st, n, att) ==
    LET result == attachment_result(k, c, range, att)
    IN  CASE result.tag = "FILES" ->
                [st EXCEPT !.processed = Append(@, [source |-> n, rws |-> result.rws])]
          [] result.tag = "CORRUPTED" -> [st EXCEPT !.corrupted_files = @ + 1]
          [] result.tag = "RANGE_ERROR" -> [st EXCEPT !.files_with_invalid_range = @ + 1]
          [] OTHER -> st

NoReply == [body |-> "none", attachments |-> <<>>]

\* what process_email returns once the loop is over
build_reply(k, range, st) ==
    IF ReportsCorrupted(k) /\ st.corrupted_files > 0
    THEN [body |-> "corrupted_file_message", attachments |-> <<>>]
    ELSE IF k = "case2" /\ st.files_with_invalid_range > 0
            /\ st.processed = <<>> /\ range # None
    THEN [body |-> "invalid_range_message", attachments |-> <<>>]
    ELSE IF st.processed = <<>> THEN NoReply
    ELSE [body |-> "response_message", attachments |-> st.processed]

RECURSIVE run_loop(_, _, _, _, _, _)
run_loop(k, c, range, st, n, atts) ==
    IF n > Len(atts) THEN st
    ELSE run_loop(k, c, range, loop_step(k, c, range, st, n, atts[n]), n + 1, atts)

\* process_email on a whole batch
process_email(k, c, range, atts) ==
    build_reply(k, range, run_loop(k, c, range, LoopStart, 1, atts))

AttachmentIdle ==
    /\ extracted = <<>>
    /\ rows = <<>>
    /\ before = <<>>
    /\ passLog = <<>>
    /\ overrideSet = {}
    /\ pc = "idle"
    /\ rendered = <<>>
    /\ outcome = "pending"

Pending == [body |-> "pending", attachments |-> <<>>]

InitBatch ==
    /\ caseKey \in Cases
    /\ cfg = cfgDefault
    /\ dateRange \in Ranges
    /\ batch \in Batches(caseKey)
    /\ cursor = 0
    /\ processed = <<>>
    /\ counters = [corrupted_files |-> 0, files_with_invalid_range |-> 0]
    /\ reply = Pending
    /\ AttachmentIdle
    /\ RenderIdle
    /\ LaterIdle

\* one turn of the loop over excel_attachments
ProcessAttachment ==
    /\ reply = Pending
    /\ cursor < Len(batch)
    /\ LET st == [processed |-> processed,
                  corrupted_files |-> counters.corrupted_files,
                  files_with_invalid_range |-> counters.files_with_invalid_range]
           nx == loop_step(caseKey, cfg, dateRange, st, cursor + 1, batch[cursor + 1])
       IN  /\ processed' = nx.processed
           /\ counters' = [corrupted_files |-> nx.corrupted_files,
                           files_with_invalid_range |-> nx.files_with_invalid_range]
    /\ cursor' = cursor + 1
    /\ UNCHANGED <<caseKey, cfg, dateRange, batch, reply>>
    /\ UNCHANGED attachmentVars
    /\ UNCHANGED renderVars
    /\ UNCHANGED laterVars

\* the code after the loop: process_email returns
BuildReply ==
    /\ reply = Pending
    /\ cursor = Len(batch)
    /\ reply' = build_reply(caseKey, dateRange,
                            [processed |-> processed,
                             corrupted_files |-> counters.corrupted_files,
                             files_with_invalid_range |-> counters.files_with_invalid_range])
    /\ UNCHANGED <<caseKey, cfg, dateRange, batch, cursor, processed, counters>>
    /\ UNCHANGED attachmentVars
    /\ UNCHANGED renderVars
    /\ UNCHANGED laterVars

NextBatch == ProcessAttachment \/ BuildReply

SpecBatch == InitBatch /\ [][NextBatch]_vars

----------------------------------------------------------------------------
(* The output files of one attachment.  case1 writes the detail workbook   *)
(* and, from it, the accounting summary; case9 and case12 write the CP and *)
(* the CB template from the rows marked CP and CB.  A sub-renderer of the  *)
(* set "failing" raises when it is called.                                 *)

RenderCases == {"case1", "case9", "case12"}

\* the sub-renderers of a case in the order of their calls
SubRenderers(k) ==
    IF k = "case1" THEN <<"detail", "summary">> ELSE <<"cp", "cb">>

\* cp_rows / cb_rows of _extract_data_rows (case9, case12)
marker_rows(rws, marker) ==
    LET marked(row) == code_key(row.code) = marker
    IN  SelectSeq(rws, marked)

\* the rows a sub-renderer works on are there
has_input(s, rws) ==
    CASE s = "cp" -> marker_rows(rws, "CP") # <<>>
      [] s = "cb" -> marker_rows(rws, "CB") # <<>>
      [] OTHER -> rws # <<>>

\* what a raising template builder leaves of the attachment: case12 catches
\* the exception and returns [], in case9 it leaves process_email
template_failure(k) == IF k = "case12" THEN "nothing" ELSE "aborted"

\* a statement row marked CP, one marked CB and one that is neither
TemplatePool ==
    { Row(Some(2), "CP", <<"B">>, "R1", Some(5), None),
      Row(Some(2), "CB", <<"A">>, "R2", None, Some(5)),
      Row(Some(2), "WD", <<"C">>, "", Some(5), None) }

InitRender ==
    /\ caseKey \in RenderCases
    /\ cfg = cfgDefault
    /\ dateRange = None
    /\ extracted \in Statements(TemplatePool)
    /\ rows = extracted
    /\ before = <<>>
    /\ passLog = <<>>
    /\ overrideSet = {}
    /\ pc = "first"
    /\ rendered = <<>>
    /\ outcome = "pending"
    /\ BatchIdle
    /\ failing \in SUBSET {SubRenderers(caseKey)[1], SubRenderers(caseKey)[2]}
    /\ result_files = <<>>
    /\ returned = "running"
    /\ LaterIdle

\* the call of the first sub-renderer: _create_formatted_workbook in
\* _enhance_excel_attachment, _build_cp_workbook in the template cases
\* (which raise MissingRequiredRowsError before it without CP and CB rows)
RenderFirst ==
    /\ pc = "first"
    /\ LET s == SubRenderers(caseKey)[1]
       IN  IF caseKey = "case1"
           THEN IF s \in failing \/ ~has_input(s, rows)
                THEN result_files' = <<>> /\ returned' = "nothing" /\ pc' = "returned"
                ELSE result_files' = <<s>> /\ returned' = returned /\ pc' = "second"
           ELSE IF ~has_input("cp", rows) /\ ~has_input("cb", rows)
                THEN result_files' = <<>> /\ returned' = "missing_rows" /\ pc' = "returned"
           ELSE IF ~has_input(s, rows)
                THEN result_files' = <<>> /\ returned' = returned /\ pc' = "second"
           ELSE IF s \in failing
                THEN /\ result_files' = <<>>
                     /\ returned' = template_failure(caseKey)
                     /\ pc' = "returned"
           ELSE result_files' = <<s>> /\ returned' = returned /\ pc' = "second"
    /\ UNCHANGED <<caseKey, cfg, dateRange, extracted, rows, before, passLog,
                   overrideSet, rendered, outcome, failing>>
    /\ UNCHANGED batchVars
    /\ UNCHANGED laterVars

\* the call of the second sub-renderer and the return of the files:
\* _create_summary_workbook catches what it raises and answers None,
\* _build_cb_workbook does not
RenderSecond ==
    /\ pc = "second"
    /\ LET s == SubRenderers(caseKey)[2]
       IN  IF caseKey = "case1"
           THEN /\ result_files' = IF s \in failing THEN result_files
                                   ELSE Append(result_files, s)
                /\ returned' = "files"
           ELSE IF ~has_input(s, rows)
                THEN result_files' = result_files /\ returned' = "files"
           ELSE IF s \in failing
                THEN result_files' = <<>> /\ returned' = template_failure(caseKey)
           ELSE result_files' = Append(result_files, s) /\ returned' = "files"
    /\ pc' = "returned"
    /\ UNCHANGED <<caseKey, cfg, dateRange, extracted, rows, before, passLog,
                   overrideSet, rendered, outcome, failing>>
    /\ UNCHANGED batchVars
    /\ UNCHANGED laterVars

NextRender == RenderFirst \/ RenderSecond

SpecRender == InitRender /\ [][NextRender]_vars

----------------------------------------------------------------------------
(* Steps modelled on their own.  The variables of the statement pipeline   *)
(* stay as StandAlone sets them, except pc.                                *)

StandAloneBase(k, p) ==
    /\ caseKey = k
    /\ cfg = cfgDefault
    /\ dateRange = None
    /\ extracted = <<>>
    /\ rows = <<>>
    /\ before = <<>>
    /\ passLog = <<>>
    /\ overrideSet = {}
    /\ pc = p
    /\ rendered = <<>>
    /\ outcome = "pending"
    /\ BatchIdle
    /\ RenderIdle
    /\ ScanIdle
    /\ RegionIdle
    /\ ExtractIdle
    /\ SummaryIdle

standAloneBaseFrame ==
    <<caseKey, cfg, dateRange, extracted, rows, before, passLog, overrideSet,
      rendered, outcome, batchVars, renderVars, scanVars, regionVars,
      extractVars, summaryVars>>

StandAlone(k, p) ==
    /\ caseKey = k
    /\ cfg = cfgDefault
    /\ dateRange = None
    /\ extracted = <<>>
    /\ rows = <<>>
    /\ before = <<>>
    /\ passLog = <<>>
    /\ overrideSet = {}
    /\ pc = p
    /\ rendered = <<>>
    /\ outcome = "pending"
    /\ BatchIdle
    /\ RenderIdle
    /\ RestIdle

standAloneFrame ==
    <<caseKey, cfg, dateRange, extracted, rows, before, passLog, overrideSet,
      rendered, outcome, batchVars, renderVars, restVars>>

----------------------------------------------------------------------------
(* _find_header_row: the scan for the header row of the statement table.   *)
(* A worksheet is a sequence of rows, a row a sequence of text cells.      *)

MaxSheet == 3

\* cases whose locator counts the cells that name a target header
LocatorCases == {"case4", "case9"}

\* _simplify_header / _normalize_text on the cells of the model
simplify_header(cell) ==
    CASE cell = "Fecha" -> "fecha"
      [] cell = "Saldo" -> "saldo"
      [] OTHER -> cell

target_headers == {"fecha", "saldo"}

CellPool == {"Fecha", "Saldo", "x"}

SheetRows == [1..2 -> CellPool]

Sheets == UNION {[1..n -> SheetRows] : n \in 1..MaxSheet}

\* matches of one row: the cells whose simplified text is a target header
match_count(row) ==
    Cardinality({c \in 1..Len(row) : simplify_header(row[c]) \in target_headers})

\* the break test after a row: case4 on matches == len(target_headers),
\* case9 on matches >= len(target_headers) - 1
stops_scan(k, matches) ==
    IF k = "case9" THEN matches >= Cardinality(target_headers) - 1
    ELSE matches = Cardinality(target_headers)

InitScan ==
    /\ \E k \in LocatorCases : StandAlone(k, "scan")
    /\ sheet \in Sheets
    /\ row_idx = 1
    /\ best_row = 0
    /\ best_matches = 0
    /\ RegionIdle
    /\ ExtractIdle
    /\ SummaryIdle

\* one turn of the loop over the rows
ScanRow ==
    /\ pc = "scan"
    /\ row_idx <= Len(sheet)
    /\ LET matches == match_count(sheet[row_idx])
       IN  /\ IF matches > best_matches
              THEN best_matches' = matches /\ best_row' = row_idx
              ELSE UNCHANGED <<best_matches, best_row>>
           /\ IF stops_scan(caseKey, matches)
              THEN pc' = "located" /\ row_idx' = row_idx
              ELSE pc' = pc /\ row_idx' = row_idx + 1
    /\ UNCHANGED <<sheet, regionVars, extractVars, summaryVars, standAloneFrame>>

\* the loop ran out of rows
ScanEnd ==
    /\ pc = "scan"
    /\ row_idx > Len(sheet)
    /\ pc' = "located"
    /\ UNCHANGED <<scanVars, regionVars, extractVars, summaryVars, standAloneFrame>>

NextScan == ScanRow \/ ScanEnd

SpecScan == InitScan /\ [][NextScan]_vars

----------------------------------------------------------------------------
(* The data region of a sheet: the rows from the first data row (row 1 of  *)
(* the model) to data_end_row, which the row loops of the filter, the      *)
(* pairing and the extraction walk.  A row is <<text of its first cell>>.  *)

RegionCases == {"case1", "case12"}

\* _normalize_text on the cells of the model
normalize_cell(cell) ==
    CASE cell = "Cuadro de Resumen" -> "cuadro de resumen"
      [] cell = "CUADRO DE RESUMEN " -> "cuadro de resumen"
      [] OTHER -> cell

RegionCellPool == {"tx", "", "Cuadro de Resumen", "CUADRO DE RESUMEN "}

RegionSheets == UNION {[1..n -> {<<c>> : c \in RegionCellPool}] : n \in 1..MaxSheet}

is_marker_row(row) == normalize_cell(row[1]) = "cuadro de resumen"

\* _find_row_with_text(worksheet, 'Cuadro de Resumen'): first such row, or 0
find_row_with_text(sh) ==
    IF \E r \in 1..Len(sh) : is_marker_row(sh[r])
    THEN SetMin({r \in 1..Len(sh) : is_marker_row(sh[r])})
    ELSE 0

\* a region that ends with the row just above the marker
data_end_row_above_marker(k, sh) ==
    LET summary_row == find_row_with_text(sh)
    IN  IF summary_row # 0 /\ (k = "case1" \/ summary_row > 1)
        THEN summary_row - 1
        ELSE Len(sh)

\* data_end_row: summary_row - 2 with a marker (in case12 only when the
\* marker lies below the first data row), else the last row
data_end_row(k, sh) ==
    LET summary_row == find_row_with_text(sh)
    IN  IF summary_row # 0 /\ (k = "case1" \/ summary_row > 1)
        THEN summary_row - 2
        ELSE Len(sh)

InitRegion ==
    /\ \E k \in RegionCases : StandAlone(k, "region")
    /\ sheet \in RegionSheets
    /\ row_idx = 1
    /\ best_row = 0
    /\ best_matches = 0
    /\ RegionIdle
    /\ ExtractIdle
    /\ SummaryIdle

\* the end of the region is computed
FindRegionEnd ==
    /\ pc = "region"
    /\ data_end' = data_end_row(caseKey, sheet)
    /\ pc' = "walk"
    /\ UNCHANGED <<scanVars, visited, extractVars, summaryVars, standAloneFrame>>

\* one turn of a row loop over range(data_start_row, data_end_row + 1)
VisitRow ==
    /\ pc = "walk"
    /\ row_idx <= data_end
    /\ visited' = visited \cup {row_idx}
    /\ row_idx' = row_idx + 1
    /\ UNCHANGED <<sheet, best_row, best_matches, data_end, pc, extractVars,
                   summaryVars, standAloneFrame>>

\* the row loop is over
RegionDone ==
    /\ pc = "walk"
    /\ row_idx > data_end
    /\ pc' = "walked"
    /\ UNCHANGED <<scanVars, regionVars, extractVars, summaryVars, standAloneFrame>>

NextRegion == FindRegionEnd \/ VisitRow \/ RegionDone

SpecRegion == InitRegion /\ [][NextRegion]_vars

----------------------------------------------------------------------------
(* The extraction loop: the rows below the header are read until the sheet *)
(* ends or a run of empty rows is met.  A row is <<text of its cells>>:    *)
(* "" for a row without values, "Fecha" for a row that repeats the header  *)
(* names.                                                                  *)

MaxExtract == 6

ExtractCases == {"case4", "case7", "case10"}

ExtractSheets == UNION {[1..n -> {<<"">>, <<"tx">>, <<"Fecha">>}] : n \in 1..MaxExtract}

\* the run of empty rows that ends the extraction: blank_streak >= 2 in
\* case4, empty_streak < 3 in case7, empty_streak < 5 in case10
empty_limit(k) ==
    CASE k = "case4" -> 2
      [] k = "case7" -> 3
      [] OTHER -> 5

is_empty_row(row) == row[1] = ""

\* case10 skips a row whose cells are the header names
is_header_repeat(k, row) == k = "case10" /\ row[1] = "Fecha"

\* a streak that counts every empty row met so far
streak_never_reset(empty, streak) == IF empty THEN streak + 1 ELSE streak

\* the streak after a row
next_streak(empty, streak) == IF empty THEN streak + 1 ELSE 0

InitExtract ==
    /\ \E k \in ExtractCases : StandAlone(k, "extract")
    /\ sheet \in ExtractSheets
    /\ row_idx = 1
    /\ best_row = 0
    /\ best_matches = 0
    /\ RegionIdle
    /\ ExtractIdle
    /\ SummaryIdle

\* one turn of the while loop
ExtractRow ==
    /\ pc = "extract"
    /\ row_idx <= Len(sheet)
    /\ empty_streak < empty_limit(caseKey)
    /\ LET empty == is_empty_row(sheet[row_idx])
       IN  /\ empty_streak' = next_streak(empty, empty_streak)
           /\ data_rows' = IF empty \/ is_header_repeat(caseKey, sheet[row_idx])
                           THEN data_rows
                           ELSE Append(data_rows, row_idx)
    /\ row_idx' = row_idx + 1
    /\ UNCHANGED <<sheet, best_row, best_matches, regionVars, pc, summaryVars,
                   standAloneFrame>>

\* the loop ends: no row left, or the run of empty rows is complete
ExtractEnd ==
    /\ pc = "extract"
    /\ row_idx > Len(sheet) \/ empty_streak >= empty_limit(caseKey)
    /\ pc' = "rows_read"
    /\ UNCHANGED <<scanVars, regionVars, extractVars, summaryVars, standAloneFrame>>

NextExtract == ExtractRow \/ ExtractEnd

SpecExtract == InitExtract /\ [][NextExtract]_vars

----------------------------------------------------------------------------
(* _create_summary_workbook: the accounting summary restates the records   *)
(* of the final sequence (rows) as rows of account, code, reference,       *)
(* amount, date.  Only position and amount of a summary row are kept.      *)

MaxSummary == 5

SummaryCases == {"case1", "case4", "case7", "case10"}

\* records with both amounts, one amount, and amounts of zero
SummaryPool ==
    { Row(Some(2), "WD", <<"B">>, "R1", Some(5), Some(3)),
      Row(Some(2), "WD", <<"B">>, "R1", Some(3), Some(5)),
      Row(Some(2), "WD", <<"B">>, "R1", Some(5), None),
      Row(Some(2), "WD", <<"B">>, "R1", Some(0), Some(0)) }

SummaryStatements == UNION {[1..n -> SummaryPool] : n \in 1..MaxSummary}

\* _has_numeric_data of case7 on a numeric cell
has_numeric_data(a) == a # None /\ (a[1] > EPS \/ -a[1] > EPS)

\* the amount of the summary row of a record, None when the record is
\* skipped: the if/elif chain of each _create_summary_workbook
summary_amount(k, row) ==
    LET debit == to_number(row.debit)
        credit == to_number(row.credit)
    IN  CASE k = "case1" ->
                IF is_positive(row.credit) THEN row.credit
                ELSE IF is_positive(row.debit) THEN row.debit
                ELSE IF has_numeric_data(row.credit) THEN row.credit
                ELSE IF has_numeric_data(row.debit) THEN row.debit
                ELSE None
          [] k = "case4" ->
                IF debit > 0 THEN Some(debit)
                ELSE IF credit > 0 THEN Some(credit)
                ELSE None
          [] k = "case7" ->
                IF credit > 0 THEN Some(credit)
                ELSE IF debit > 0 THEN Some(debit)
                ELSE IF has_numeric_data(row.credit) THEN Some(credit)
                ELSE IF has_numeric_data(row.debit) THEN Some(debit)
                ELSE None
          [] OTHER ->
                IF debit > 0 /\ credit > 0
                THEN Some(IF debit > credit THEN debit ELSE credit)
                ELSE IF debit > 0 THEN Some(debit)
                ELSE IF credit > 0 THEN Some(credit)
                ELSE Some(0)

\* the records handed to the summary: case10 leaves the last four out
\* (data_rows[:-4]), the other cases hand all of them
summary_source(k, rws) ==
    IF k = "case10"
    THEN (IF Len(rws) >= 4 THEN [n \in 1..(Len(rws) - 4) |-> n] ELSE <<>>)
    ELSE [n \in 1..Len(rws) |-> n]

InitSummary ==
    /\ caseKey \in SummaryCases
    /\ cfg = cfgDefault
    /\ dateRange = None
    /\ rows \in SummaryStatements
    /\ extracted = rows
    /\ before = <<>>
    /\ passLog = <<>>
    /\ overrideSet = {}
    /\ pc = "summary"
    /\ rendered = <<>>
    /\ outcome = "pending"
    /\ BatchIdle
    /\ RenderIdle
    /\ ScanIdle
    /\ RegionIdle
    /\ ExtractIdle
    /\ SummaryIdle
    /\ RestIdle

\* the caller picks the records of the summary
StartSummary ==
    /\ pc = "summary"
    /\ summary_rows' = summary_source(caseKey, rows)
    /\ row_idx' = 1
    /\ pc' = "restate"
    /\ UNCHANGED <<sheet, best_row, best_matches, regionVars, extractVars,
                   summary_ws, standAloneFrame>>

\* one turn of the loop over the records
RestateRow ==
    /\ pc = "restate"
    /\ row_idx <= Len(summary_rows)
    /\ LET source == summary_rows[row_idx]
           amount == summary_amount(caseKey, rows[source])
       IN  summary_ws' = IF amount = None THEN summary_ws
                         ELSE Append(summary_ws, [source |-> source, amount |-> amount[1]])
    /\ row_idx' = row_idx + 1
    /\ UNCHANGED <<sheet, best_row, best_matches, regionVars, extractVars,
                   summary_rows, pc, standAloneFrame>>

\* the summary workbook is saved
SummaryDone ==
    /\ pc = "restate"
    /\ row_idx > Len(summary_rows)
    /\ pc' = "summarized"
    /\ UNCHANGED <<scanVars, regionVars, extractVars, summaryVars, standAloneFrame>>

NextSummary == StartSummary \/ RestateRow \/ SummaryDone

SpecSummary == InitSummary /\ [][NextSummary]_vars

----------------------------------------------------------------------------
(* ConfigManager: every getter loads config.json anew (load_config), and    *)
(* save_config rewrites the file from the thread of the window while the    *)
(* monitoring thread classifies an attachment.  cfg is the file content.    *)

ConfigCases == {"case1", "case11"}

ConfigRowPool ==
    { Row(Some(2), "WD", <<"B">>, "R1", Some(5), None),
      Row(Some(2), "PP", <<"A">>, "R2", None, Some(5)),
      Row(Some(2), "", <<"C">>, "", Some(5), None) }

ConfigStatements == UNION {[1..n -> ConfigRowPool] : n \in 1..2}

\* the passes whose code calls a getter of the ConfigManager
reads_config(p) == p \in {"codify", "remap_debit", "remap_credit", "override"}

\* load_config: json.load of the file; a file that is open for writing has
\* been truncated, json.load raises and the except branch returns {}
load_config(file, writing) == IF writing THEN cfgDefault ELSE file

InitConfig ==
    /\ caseKey \in ConfigCases
    /\ cfg \in Configs
    /\ dateRange = None
    /\ extracted \in ConfigStatements
    /\ rows = extracted
    /\ before = extracted
    /\ passLog = <<>>
    /\ overrideSet = {}
    /\ pc = "classify"
    /\ rendered = <<>>
    /\ outcome = "pending"
    /\ BatchIdle
    /\ RenderIdle
    /\ ScanIdle
    /\ RegionIdle
    /\ ExtractIdle
    /\ SummaryIdle
    /\ ConfigIdle
    /\ DispatchIdle
    /\ ProviderIdle
    /\ MonitorIdle
    /\ MailIdle

configFrame ==
    <<caseKey, dateRange, extracted, rendered, outcome, batchVars, renderVars,
      scanVars, regionVars, extractVars, summaryVars, dispatchVars,
      providerVars, monitorVars, mailVars>>

\* monitoring thread: the next classification call of the attachment
ClassifyPass ==
    /\ pc = "classify"
    /\ Len(passLog) < Len(PassOrder(caseKey))
    /\ LET p == PassOrder(caseKey)[Len(passLog) + 1]
           c == load_config(cfg, config_writing)
       IN  /\ rows' = ApplyPass(caseKey, p, rows, c)
           /\ before' = rows
           /\ passLog' = Append(passLog, p)
           /\ overrideSet' = IF p = "override"
                             THEN overrideSet \cup override_hits(caseKey, rows, c)
                             ELSE overrideSet
           /\ config_reads' = IF reads_config(p) THEN Append(config_reads, c)
                              ELSE config_reads
    /\ UNCHANGED <<cfg, config_writing, pc, configFrame>>

\* monitoring thread: all calls have run
ClassifyDone ==
    /\ pc = "classify"
    /\ Len(passLog) = Len(PassOrder(caseKey))
    /\ pc' = "classified"
    /\ UNCHANGED <<cfg, rows, before, passLog, overrideSet, configVars, configFrame>>

\* window thread, save_config: open(config_file, 'w') truncates the file
OpenConfigForWriting ==
    /\ pc = "classify"
    /\ ~config_writing
    /\ config_writing' = TRUE
    /\ UNCHANGED <<cfg, rows, before, passLog, overrideSet, pc, config_reads, configFrame>>

\* window thread, save_config: json.dump and close
DumpConfig ==
    /\ config_writing
    /\ \E c \in Configs : cfg' = c
    /\ config_writing' = FALSE
    /\ UNCHANGED <<rows, before, passLog, overrideSet, pc, config_reads, configFrame>>

NextConfig == ClassifyPass \/ ClassifyDone \/ OpenConfigForWriting \/ DumpConfig

SpecConfig == InitConfig /\ [][NextConfig]_vars

----------------------------------------------------------------------------
(* CaseHandler.find_matching_case: the first loaded case, in loading order, *)
(* one of whose keywords is found in the subject as a whole word.           *)

MaxDigits == 2

\* case_modules of _load_cases_explicit, highest number first
case_modules ==
    <<"case12", "case11", "case10", "case9", "case8", "case7",
      "case6", "case5", "case4", "case3", "case2", "case1">>

\* the modules that exist (the import of the others raises ImportError)
importable ==
    {"case12", "case11", "case10", "case9", "case7", "case6", "case5",
     "case4", "case2", "case1"}

\* self.cases in insertion order
loaded_cases ==
    LET imported(m) == m \in importable
    IN  SelectSeq(case_modules, imported)

case_number(m) ==
    CASE m = "case12" -> <<"1", "2">>
      [] m = "case11" -> <<"1", "1">>
      [] m = "case10" -> <<"1", "0">>
      [] m = "case9" -> <<"9">>
      [] m = "case7" -> <<"7">>
      [] m = "case6" -> <<"6">>
      [] m = "case5" -> <<"5">>
      [] m = "case4" -> <<"4">>
      [] m = "case2" -> <<"2">>
      [] OTHER -> <<"1">>

\* get_search_keywords with search_params casoN = "Caso N"
search_keywords(m) == <<(<<"C", "a", "s", "o", " ">> \o case_number(m))>>

\* str.lower on the characters of the model
lower_char(ch) ==
    CASE ch = "C" -> "c"
      [] ch = "F" -> "f"
      [] ch = "A" -> "a"
      [] ch = "T" -> "t"
      [] ch = "U" -> "u"
      [] OTHER -> ch

lower(text) == [i \in 1..Len(text) |-> lower_char(text[i])]

\* \w of the regular expression
is_word_char(ch) ==
    ch \in {"c", "a", "s", "o", "f", "C", "F", "0", "1", "2", "4", "5", "6", "7", "9", "_"}

\* \b in front of position i (1..Len+1) of the text
word_boundary(text, i) ==
    LET left == i > 1 /\ is_word_char(text[i - 1])
        right == i <= Len(text) /\ is_word_char(text[i])
    IN  left # right

\* the keyword occurs in the text, without test of its surroundings
keyword_is_substring(keyword, text) ==
    \E i \in 1..(Len(text) - Len(keyword) + 1) :
        SubSeq(text, i, i + Len(keyword) - 1) = lower(keyword)

\* re.search(r'\b' + re.escape(keyword.lower()) + r'\b', subject.lower())
keyword_matches(keyword, text) ==
    \E i \in 1..(Len(text) - Len(keyword) + 1) :
        /\ SubSeq(text, i, i + Len(keyword) - 1) = lower(keyword)
        /\ word_boundary(text, i)
        /\ word_boundary(text, i + Len(keyword))

RECURSIVE first_matching(_, _, _)
first_matching(cases, subj, allowed) ==
    IF cases = <<>> THEN "none"
    ELSE LET m == Head(cases)
             keywords == search_keywords(m)
         IN  IF allowed # {} /\ m \notin allowed
             THEN first_matching(Tail(cases), subj, allowed)
             ELSE IF \E n \in 1..Len(keywords) : keyword_matches(keywords[n], lower(subj))
             THEN m
             ELSE first_matching(Tail(cases), subj, allowed)

find_matching_case(subj, allowed) == first_matching(loaded_cases, subj, allowed)

Digits == {"0", "1", "2"}

Numbers == UNION {[1..n -> Digits] : n \in 1..MaxDigits}

\* subjects: some text, the word, a number, some text
SubjectPool ==
    { prefix \o word \o <<" ">> \o number \o suffix :
        prefix \in {<<>>, <<"F", " ">>, <<"o">>},
        word \in {<<"c", "a", "s", "o">>, <<"C", "a", "s", "o">>},
        number \in Numbers,
        suffix \in {<<>>, <<" ", "0", "1", "/">>, <<"/">>,
                    <<" ", "c", "a", "s", "o", " ", "1">>} }

AllowedPool == {{}, {"case1"}, {"case1", "case10", "case11", "case12"}, {"case2", "case12"}}

InitDispatch ==
    /\ StandAloneBase("none", "dispatch")
    /\ ConfigIdle
    /\ ProviderIdle
    /\ MonitorIdle
    /\ MailIdle
    /\ subject \in SubjectPool
    /\ allowed_cases \in AllowedPool
    /\ matched_case = "none"

Dispatch ==
    /\ pc = "dispatch"
    /\ matched_case' = find_matching_case(subject, allowed_cases)
    /\ pc' = "dispatched"
    /\ UNCHANGED <<subject, allowed_cases, configVars, providerVars, monitorVars,
                   mailVars, standAloneBaseFrame>>

NextDispatch == Dispatch

SpecDispatch == InitDispatch /\ [][NextDispatch]_vars

----------------------------------------------------------------------------
(* _find_provider_code and _find_subtype_value of case9 and case12: the     *)
(* look-ups that fill the provider code of a payment template row and the   *)
(* subtype of a bank template row.                                          *)

MaxEntries == 2

ProviderCases == {"case9", "case12"}

\* str.upper on the characters of the model
upper_char(ch) ==
    CASE ch = "t" -> "T"
      [] ch = "u" -> "U"
      [] ch = "a" -> "A"
      [] OTHER -> ch

upper(text) == [i \in 1..Len(text) |-> upper_char(text[i])]

\* case9 strips the fields of a provider entry, case12 takes them as stored
provider_field(k, text) == IF k = "case9" THEN Strip(text) ELSE text

RECURSIVE last_provider_code(_, _, _)
last_provider_code(k, descr, providers) ==
    IF providers = <<>> THEN <<>>
    ELSE LET provider == providers[Len(providers)]
             search_text == lower(provider_field(k, provider.search_text))
             code == provider_field(k, provider.provider_code)
         IN  IF search_text # <<>> /\ code # <<>> /\ Contains(lower(descr), search_text)
             THEN code
             ELSE last_provider_code(k, descr, SubSeq(providers, 1, Len(providers) - 1))

RECURSIVE first_provider_code(_, _, _)
first_provider_code(k, descr, providers) ==
    IF providers = <<>> THEN <<>>
    ELSE LET provider == Head(providers)
             search_text == lower(provider_field(k, provider.search_text))
             code == provider_field(k, provider.provider_code)
         IN  IF search_text # <<>> /\ code # <<>> /\ Contains(lower(descr), search_text)
             THEN code
             ELSE first_provider_code(k, descr, Tail(providers))

find_provider_code(k, descr, config) ==
    IF descr = <<>> THEN <<>>
    ELSE first_provider_code(k, descr, config.providers)

RECURSIVE first_subtype_value(_, _, _)
first_subtype_value(doc_type, descr, subtypes) ==
    IF subtypes = <<>> THEN <<>>
    ELSE LET rule == Head(subtypes)
             rule_doc_type == upper(Strip(rule.document_type))
             rule_search_text == lower(Strip(rule.search_text))
             value == Strip(rule.subtype_value)
         IN  IF /\ rule_doc_type # <<>>
                /\ rule_search_text # <<>>
                /\ value # <<>>
                /\ rule_doc_type = upper(Strip(doc_type))
                /\ Contains(lower(descr), rule_search_text)
             THEN value
             ELSE first_subtype_value(doc_type, descr, Tail(subtypes))

find_subtype_value(doc_type, descr, config) ==
    IF doc_type = <<>> \/ descr = <<>> THEN <<>>
    ELSE first_subtype_value(doc_type, descr, config.subtypes)

ProviderEntries ==
    [search_text : {<<"a">>, <<"A">>, <<"b">>, <<" ", "a">>, <<>>},
     provider_code : {<<"P">>, <<"Q">>, <<>>}]

SubtypeRules ==
    [document_type : {<<"T">>, <<"u", " ">>},
     search_text : {<<"a">>, <<"b">>},
     subtype_value : {<<"S">>, <<"R">>}]

Lists(pool) == UNION {[1..n -> pool] : n \in 0..MaxEntries}

AccountConfigs ==
    {[providers |-> p, subtypes |-> <<>>] : p \in Lists(ProviderEntries)}
        \cup {[providers |-> <<>>, subtypes |-> r] : r \in Lists(SubtypeRules)}

Descriptions == {<<"a", "b">>, <<"A">>, <<"b", " ", "a">>, <<"b">>, <<>>}

DocumentTypes == {<<"T">>, <<"U">>}

InitProvider ==
    /\ \E k \in ProviderCases : StandAloneBase(k, "template")
    /\ ConfigIdle
    /\ DispatchIdle
    /\ MonitorIdle
    /\ MailIdle
    /\ description \in Descriptions
    /\ document_type \in DocumentTypes
    /\ account_config \in AccountConfigs
    /\ provider_code = <<>>
    /\ subtype_value = <<>>

\* a row of the payment template
FillPaymentRow ==
    /\ pc = "template"
    /\ provider_code' = find_provider_code(caseKey, description, account_config)
    /\ pc' = "payment_row"
    /\ UNCHANGED <<description, document_type, account_config, subtype_value,
                   configVars, dispatchVars, monitorVars, mailVars,
                   standAloneBaseFrame>>

\* a row of the bank template
FillBankRow ==
    /\ pc = "payment_row"
    /\ subtype_value' = find_subtype_value(document_type, description, account_config)
    /\ pc' = "bank_row"
    /\ UNCHANGED <<description, document_type, account_config, provider_code,
                   configVars, dispatchVars, monitorVars, mailVars,
                   standAloneBaseFrame>>

NextProvider == FillPaymentRow \/ FillBankRow

SpecProvider == InitProvider /\ [][NextProvider]_vars

----------------------------------------------------------------------------
(* toggle_monitoring and monitor_emails of the window: the button starts a  *)
(* daemon thread on monitor_emails or clears self.monitoring; each thread   *)
(* loops while self.monitoring, polls the mailbox and sleeps.               *)

Threads == 1..MaxThreads

Unborn == {t \in Threads : monitor_threads[t] = "unborn"}

InitMonitor ==
    /\ StandAloneBase("none", "window")
    /\ ConfigIdle
    /\ DispatchIdle
    /\ ProviderIdle
    /\ MonitorIdle
    /\ MailIdle

monitorFrame ==
    <<pc, configVars, dispatchVars, providerVars, mailVars, standAloneBaseFrame>>

\* window thread: the button.  Starting needs a complete configuration;
\* stopping only clears the flag.
toggle_monitoring ==
    /\ IF ~monitoring
       THEN \E configured \in BOOLEAN :
               IF configured /\ Unborn # {}
               THEN LET t == CHOOSE u \in Unborn : \A v \in Unborn : u <= v
                    IN  /\ monitoring' = TRUE
                        /\ monitor_threads' = [monitor_threads EXCEPT ![t] = "loop_test"]
                        /\ UNCHANGED polls
               ELSE UNCHANGED monitorVars
       ELSE /\ monitoring' = FALSE
            /\ UNCHANGED <<monitor_threads, polls>>
    /\ UNCHANGED monitorFrame

\* monitor thread: while self.monitoring
LoopTest(t) ==
    /\ monitor_threads[t] = "loop_test"
    /\ monitor_threads' =
          [monitor_threads EXCEPT ![t] = IF monitoring THEN "polling" ELSE "ended"]
    /\ UNCHANGED <<monitoring, polls, monitorFrame>>

\* monitor thread: check_and_process_emails returns or raises
PollMailbox(t) ==
    /\ monitor_threads[t] = "polling"
    /\ polls < MaxPolls
    /\ monitor_threads' = [monitor_threads EXCEPT ![t] = "sleeping"]
    /\ polls' = polls + 1
    /\ UNCHANGED <<monitoring, monitorFrame>>

\* monitor thread: time.sleep(30), or time.sleep(60) after an exception, is over
WakeUp(t) ==
    /\ monitor_threads[t] = "sleeping"
    /\ monitor_threads' = [monitor_threads EXCEPT ![t] = "loop_test"]
    /\ UNCHANGED <<monitoring, polls, monitorFrame>>

monitor_emails == \E t \in Threads : LoopTest(t) \/ PollMailbox(t) \/ WakeUp(t)

NextMonitor == toggle_monitoring \/ monitor_emails

SpecMonitor == InitMonitor /\ [][NextMonitor]_vars

----------------------------------------------------------------------------
(* EmailManager.check_and_process_emails: one pass searches the unread      *)
(* messages and, for each one whose subject matches a case, marks it as     *)
(* read, fetches it, runs the case and sends the reply.                     *)

MaxMessages == 2
MaxPasses == 2

Message(matches) == [matches |-> matches, seen |-> FALSE, replied |-> FALSE]

Mailboxes == UNION {[1..n -> {Message(TRUE), Message(FALSE)}] : n \in 1..MaxMessages}

\* imap.search(None, 'UNSEEN', ...): the unread messages, in order
unseen_ids(box) ==
    LET unread(m) == ~box[m].seen
    IN  SelectSeq([m \in 1..Len(box) |-> m], unread)

InitMail ==
    /\ StandAloneBase("none", "monitor")
    /\ ConfigIdle
    /\ DispatchIdle
    /\ ProviderIdle
    /\ MonitorIdle
    /\ mailbox \in Mailboxes
    /\ message_ids = <<>>
    /\ msg_cursor = 0
    /\ msg_stage = "idle"
    /\ mail_passes = 0

mailFrame ==
    <<pc, configVars, dispatchVars, providerVars, monitorVars, standAloneBaseFrame>>

\* the message the loop is at
current_message == message_ids[msg_cursor]

\* a pass begins: search of the unread messages
SearchMailbox ==
    /\ msg_stage = "idle"
    /\ mail_passes < MaxPasses
    /\ message_ids' = unseen_ids(mailbox)
    /\ msg_cursor' = 1
    /\ msg_stage' = "review"
    /\ UNCHANGED <<mailbox, mail_passes, mailFrame>>

\* the loop has gone through message_ids (or found none): the pass ends
EndPass ==
    /\ msg_stage = "review"
    /\ msg_cursor > Len(message_ids)
    /\ msg_stage' = "idle"
    /\ message_ids' = <<>>
    /\ msg_cursor' = 0
    /\ mail_passes' = mail_passes + 1
    /\ UNCHANGED <<mailbox, mailFrame>>

\* headers are fetched with BODY.PEEK and the subject is matched
ReviewMessage ==
    /\ msg_stage = "review"
    /\ msg_cursor <= Len(message_ids)
    /\ \E fetched \in BOOLEAN :
          IF fetched /\ mailbox[current_message].matches
          THEN /\ msg_stage' = "mark"
               /\ UNCHANGED msg_cursor
          ELSE /\ msg_cursor' = msg_cursor + 1
               /\ UNCHANGED msg_stage
    /\ UNCHANGED <<mailbox, message_ids, mail_passes, mailFrame>>

\* _mark_as_read: STORE +FLAGS \Seen; not OK, OK with an empty result, or OK
MarkAsRead ==
    /\ msg_stage = "mark"
    /\ \E store \in {"not_ok", "empty_result", "ok"} :
          /\ mailbox' = IF store = "not_ok" THEN mailbox
                        ELSE [mailbox EXCEPT ![current_message].seen = TRUE]
          /\ IF store = "ok"
             THEN /\ msg_stage' = "fetch"
                  /\ UNCHANGED msg_cursor
             ELSE /\ msg_stage' = "review"
                  /\ msg_cursor' = msg_cursor + 1
    /\ UNCHANGED <<message_ids, mail_passes, mailFrame>>

\* imap.fetch(msg_id, '(RFC822)') and the parsing of the message
FetchMessage ==
    /\ msg_stage = "fetch"
    /\ \E fetched \in BOOLEAN :
          IF fetched
          THEN /\ msg_stage' = "execute"
               /\ UNCHANGED msg_cursor
          ELSE /\ msg_stage' = "review"
               /\ msg_cursor' = msg_cursor + 1
    /\ UNCHANGED <<mailbox, message_ids, mail_passes, mailFrame>>

\* case_handler.execute_case: response data, or False / None
ExecuteCase ==
    /\ msg_stage = "execute"
    /\ \E response \in BOOLEAN :
          IF response
          THEN /\ msg_stage' = "send"
               /\ UNCHANGED msg_cursor
          ELSE /\ msg_stage' = "review"
               /\ msg_cursor' = msg_cursor + 1
    /\ UNCHANGED <<mailbox, message_ids, mail_passes, mailFrame>>

\* _send_case_reply
SendReply ==
    /\ msg_stage = "send"
    /\ \E sent \in BOOLEAN :
          mailbox' = [mailbox EXCEPT ![current_message].replied = sent]
    /\ msg_stage' = "review"
    /\ msg_cursor' = msg_cursor + 1
    /\ UNCHANGED <<message_ids, mail_passes, mailFrame>>

check_and_process_emails ==
    \/ SearchMailbox
    \/ ReviewMessage
    \/ MarkAsRead
    \/ FetchMessage
    \/ ExecuteCase
    \/ SendReply
    \/ EndPass

NextMail == check_and_process_emails

SpecMail == InitMail /\ [][NextMail]_vars

----------------------------------------------------------------------------
(* Order of the classification passes *)

\* the passes in the order the code runs them; a case runs the ones it has
RunOrder ==
    <<"codify", "pairing", "remap_debit", "remap_credit", "tiebreak", "override">>

RunRank(p) == CHOOSE n \in 1..Len(RunOrder) : RunOrder[n] = p

\* the passes as the design text lists them: the tie-break belongs to the
\* pairing pass, which comes before the sign remap
ListedRank(p) ==
    CASE p = "codify" -> 1
      [] p \in {"pairing", "tiebreak"} -> 2
      [] p \in {"remap_debit", "remap_credit"} -> 3
      [] p = "override" -> 4

\* C1 (as the code has it): on every statement the passes run in the order
\* keyword codification, reference pairing, sign remap (debits, then credits),
\* amount tie-break, description override; each case runs the passes it has,
\* none of them twice and none before an earlier one of this order.
C1_PassesInRunOrder ==
    \A i, j \in 1..Len(passLog) :
        i < j => RunRank(passLog[i]) < RunRank(passLog[j])

\* C1 as stated: the passes run in the order keyword codification, reference
\* pairing with its tie-break, sign remap, description override.
C1_PassesInListedOrder ==
    \A i, j \in 1..Len(passLog) :
        i < j => ListedRank(passLog[i]) <= ListedRank(passLog[j])

\* a case1 statement whose tie-break changed a code after the sign remaps ran
C1_Witness ==
    /\ caseKey = "case1"
    /\ passLog = <<"pairing", "remap_debit", "remap_credit", "tiebreak">>
    /\ \E i \in 1..Len(rows) : rows[i].code # before[i].code

\* C6: once an override rule has decided a row's code, no other pass changes
\* it, and it is the code written to the output.
C6_OverrideIsFinal ==
    [][\A i \in overrideSet :
          /\ i \in 1..Len(rows')
          /\ rows'[i].code = rows[i].code
          /\ pc' = "done" => rendered'[i].code = rows[i].code]_vars

\* a written row whose code the override pass changed
C6_Witness ==
    /\ pc = "done"
    /\ \E i \in overrideSet : rendered[i].code # before[i].code

----------------------------------------------------------------------------
(* Description override *)

AfterPass(p) == passLog # <<>> /\ passLog[Len(passLog)] = p

\* positions of the override rules whose search text occurs in a description
OverrideMatches(k, c, desc) ==
    LET rules == normalized_override_rules(k, c)
    IN  {j \in 1..Len(rules) : Contains(normalize_text(k, desc), rules[j].search_text)}

FirstOverrideCode(k, c, desc) ==
    normalized_override_rules(k, c)[SetMin(OverrideMatches(k, c, desc))].code

\* C7 (as the code has it): after the override pass, every row whose
\* normalized description contains the search text of some override rule has
\* the code of the first such rule, up to letter case and surrounding blanks
\* (a code already equal to it in that sense is left as it was written).
C7_FirstOverrideWinsUpToCase ==
    AfterPass("override") =>
        \A i \in 1..Len(rows) :
            OverrideMatches(caseKey, cfg, rows[i].desc) # {} =>
                code_key(rows[i].code) = FirstOverrideCode(caseKey, cfg, rows[i].desc)

\* C7 as stated: after the override pass, every row whose normalized
\* description contains the search text of some override rule has the code
\* of the first such rule.
C7_FirstOverrideWins ==
    AfterPass("override") =>
        \A i \in 1..Len(rows) :
            OverrideMatches(caseKey, cfg, rows[i].desc) # {} =>
                rows[i].code = FirstOverrideCode(caseKey, cfg, rows[i].desc)

\* a row matched by two rules with different codes that the pass recoded
\* with the first rule's code
C7_Witness ==
    /\ AfterPass("override")
    /\ \E i \in 1..Len(rows) :
          LET hits == OverrideMatches(caseKey, cfg, rows[i].desc)
              rules == normalized_override_rules(caseKey, cfg)
          IN  /\ \E j1, j2 \in hits : rules[j1].code # rules[j2].code
              /\ rows[i].code = rules[SetMin(hits)].code
              /\ before[i].code # rows[i].code

----------------------------------------------------------------------------
(* Keyword codification *)

CreditCode(k, c, row) ==
    match_codification(normalize_text(k, row.desc), get_codification_rules(k, c).credit)

DebitCode(k, c, row) ==
    match_codification(normalize_text(k, row.desc), get_codification_rules(k, c).debit)

DebitAmount(k, row) == IF HasDebitColumn(k) THEN to_number(row.debit) ELSE 0

\* C8: after keyword codification, a row with credit > 0 and debit <= 0 whose
\* description matches a credit rule has that credit rule's code, also when
\* a debit rule matches the same description.
C8_CreditRuleWins ==
    passLog = <<"codify">> =>
        \A i \in 1..Len(rows) :
            (/\ to_number(rows[i].credit) > 0
             /\ DebitAmount(caseKey, rows[i]) <= 0
             /\ CreditCode(caseKey, cfg, before[i]) # "")
            => rows[i].code = CreditCode(caseKey, cfg, before[i])

\* a credit row matched by a credit rule and by a debit rule with another code
C8_Witness ==
    /\ passLog = <<"codify">>
    /\ \E i \in 1..Len(rows) :
          /\ to_number(rows[i].credit) > 0
          /\ DebitAmount(caseKey, rows[i]) <= 0
          /\ CreditCode(caseKey, cfg, before[i]) # ""
          /\ DebitCode(caseKey, cfg, before[i]) # ""
          /\ DebitCode(caseKey, cfg, before[i]) # CreditCode(caseKey, cfg, before[i])
          /\ rows[i].code = CreditCode(caseKey, cfg, before[i])

\* C9 (as the code has it): the debit rules are tried whenever debit > 0 and
\* no credit rule has matched, whatever the credit: a row with credit > 0
\* that matches no credit rule gets the code of the first matching debit rule
\* when its debit is > 0 too, and no code from the debit rules otherwise.
C9_DebitRulesAfterCreditMiss ==
    passLog = <<"codify">> =>
        \A i \in 1..Len(rows) :
            (to_number(rows[i].credit) > 0 /\ CreditCode(caseKey, cfg, before[i]) = "")
            => rows[i].code =
                 IF DebitAmount(caseKey, rows[i]) > 0 /\ DebitCode(caseKey, cfg, before[i]) # ""
                 THEN DebitCode(caseKey, cfg, before[i])
                 ELSE unmatched_code(caseKey, before[i])

\* C9 as stated: a row with credit > 0 that matches no credit rule is not
\* given a code by a debit rule.
C9_NoDebitRuleOnCreditRow ==
    passLog = <<"codify">> =>
        \A i \in 1..Len(rows) :
            (to_number(rows[i].credit) > 0 /\ CreditCode(caseKey, cfg, before[i]) = "")
            => rows[i].code = unmatched_code(caseKey, before[i])

\* a row with credit > 0 and debit > 0, no credit rule matching, recoded by a
\* debit rule
C9_Witness ==
    /\ passLog = <<"codify">>
    /\ \E i \in 1..Len(rows) :
          /\ to_number(rows[i].credit) > 0
          /\ DebitAmount(caseKey, rows[i]) > 0
          /\ CreditCode(caseKey, cfg, before[i]) = ""
          /\ DebitCode(caseKey, cfg, before[i]) # ""
          /\ rows[i].code = DebitCode(caseKey, cfg, before[i])
          /\ rows[i].code # before[i].code

\* C10: when no codification rule matches a row, keyword codification leaves
\* the row's code as it was.
C10_UnmatchedCodeKept ==
    passLog = <<"codify">> =>
        \A i \in 1..Len(rows) :
            determine_codification(caseKey, before[i], get_codification_rules(caseKey, cfg)) = ""
            => rows[i].code = before[i].code

----------------------------------------------------------------------------
(* Date filter outcomes and the attachment loop *)

\* the requested range with its endpoints in order
OrderedRange(range) == IF range[1] > range[2] THEN <<range[2], range[1]>> ELSE range

\* the range excludes every record of the statement whose date parses
ExcludesAllParsable(rws, range) ==
    /\ range # None
    /\ \E i \in 1..Len(rws) : rws[i].date # None
    /\ \A i \in 1..Len(rws) :
          rws[i].date # None =>
              ~(OrderedRange(range)[1] <= rws[i].date[1]
                /\ rws[i].date[1] <= OrderedRange(range)[2])

\* C3: when the requested range excludes every record with a parsable date,
\* the statement ends as empty-after-filter and no output is written for it.
C3_EmptyRangeNoArtifact ==
    (pc = "done" /\ ExcludesAllParsable(extracted, dateRange))
    => (outcome = "empty_after_filter" /\ rendered = <<>>)

\* C4: the zero-rows outcome is handed to the caller exactly when the date
\* filter leaves no record.
C4_ZeroRowsReportedIffNoneLeft ==
    pc \in {"classify", "done"} =>
        ((outcome = "empty_after_filter")
         <=> (dateRange # None
              /\ filter_rows_by_date_range(caseKey, extracted, dateRange) = <<>>))

IsFailure(k, c, range, att) == attachment_result(k, c, range, att).tag # "FILES"

\* C2: when an attachment of the batch fails and a sibling can be processed,
\* the reply carries the sibling's output.
C2_SiblingStillDelivered ==
    reply.body \notin {"pending", "idle"} =>
        \A i, j \in 1..Len(batch) :
            (/\ IsFailure(caseKey, cfg, dateRange, batch[i])
             /\ ~IsFailure(caseKey, cfg, dateRange, batch[j]))
            => \E n \in 1..Len(reply.attachments) : reply.attachments[n].source = j

\* a sheet all of whose rows the date filter removes
EmptiedByFilter(k, range, att) ==
    /\ att.kind = "sheet"
    /\ range # None
    /\ filter_rows_by_date_range(k, att.rws, range) = <<>>

\* C5: the reply to an e-mail whose only attachment lost all its rows to the
\* date filter differs from the reply to one whose only attachment has no
\* recognizable layout.
C5_EmptyFilterUnlikeUnrecognized ==
    (/\ reply.body \notin {"pending", "idle"}
     /\ RejectsUnrecognized(caseKey)
     /\ Len(batch) = 1
     /\ EmptiedByFilter(caseKey, dateRange, batch[1]))
    => reply # process_email(caseKey, cfg, dateRange, <<Attachment("unrecognized", <<>>)>>)


----------------------------------------------------------------------------
(* Sign-exclusive remap (claims C11, C12) *)

\* the debit amount a record has in the case (none without a debit column)
DebitOf(k, row) == IF HasDebitColumn(k) THEN row.debit ELSE None

RemapChanged(i) == rows[i].code # before[i].code

\* C11: the debit remap re-codes a record only when its debit is positive
\* and its credit is not, the credit remap only when its credit is positive
\* and its debit is not; a record with both amounts positive, or neither,
\* keeps its code in both calls (positive: above 1e-9).
C11_RemapOnlyWhenSignExclusive ==
    /\ AfterPass("remap_debit") =>
          \A i \in 1..Len(rows) :
              RemapChanged(i) =>
                  /\ to_number(DebitOf(caseKey, before[i])) > EPS
                  /\ ~(to_number(before[i].credit) > EPS)
    /\ AfterPass("remap_credit") =>
          \A i \in 1..Len(rows) :
              RemapChanged(i) =>
                  /\ to_number(before[i].credit) > EPS
                  /\ ~(to_number(DebitOf(caseKey, before[i])) > EPS)

\* a credit-only record re-coded by the credit remap, beside a record with
\* both amounts positive whose code is a key of the map and is kept
C11_Witness ==
    /\ AfterPass("remap_credit")
    /\ \E i, j \in 1..Len(rows) :
          /\ RemapChanged(i)
          /\ to_number(before[i].credit) > EPS
          /\ to_number(DebitOf(caseKey, before[j])) > EPS
          /\ to_number(before[j].credit) > EPS
          /\ code_key(before[j].code) \in DOMAIN get_non_negative_credit_code_map(cfg)
          /\ ~RemapChanged(j)

\* C12: a record whose code is empty before a remap call still has an empty
\* code after it, whatever its amounts and whatever the maps hold.
C12_EmptyCodeStaysEmpty ==
    (AfterPass("remap_debit") \/ AfterPass("remap_credit")) =>
        \A i \in 1..Len(rows) : before[i].code = "" => rows[i].code = ""

\* a debit-only record without code passes a debit remap whose map is not
\* empty and that re-codes another record of the statement
C12_Witness ==
    /\ AfterPass("remap_debit")
    /\ DOMAIN get_positive_debit_code_map(cfg) # {}
    /\ \E i, j \in 1..Len(rows) :
          /\ before[i].code = ""
          /\ sign_exclusive(DebitOf(caseKey, before[i]), before[i].credit)
          /\ rows[i].code = ""
          /\ RemapChanged(j)

----------------------------------------------------------------------------
(* Duplicate references (claims C13, C14, C15) *)

\* the statement with the records at positions i and j in the other file order
SwapRows(rws, i, j) ==
    [n \in 1..Len(rws) |->
        IF n = i THEN rws[j] ELSE IF n = j THEN rws[i] ELSE rws[n]]

\* positions i < j of two different records that alone share a reference
SharedReference(rws, i, j) ==
    i < j /\ j <= Len(rws) /\ reference_group(rws, i) = {i, j} /\ rws[i] # rws[j]

\* both records carry the placeholder code and the same debit amount
TiedPlaceholders(k, rws, i, j) ==
    /\ HasDebitColumn(k)
    /\ code_key(rws[i].code) = "PP" /\ code_key(rws[j].code) = "PP"
    /\ rws[i].debit # None /\ rws[j].debit # None
    /\ rws[i].debit = rws[j].debit

\* each of the two records got the code it gets in the other file order
SameCodesSwapped(out, swapped, i, j) ==
    out[i].code = swapped[j].code /\ out[j].code = swapped[i].code

\* C13 (as amended): for two records that alone share a reference, the
\* pairing call gives each the same code in either file order, and so does
\* the tie-break call unless both carry PP with equal debit amounts.
C13_OrderIndependentUnlessTied ==
    /\ AfterPass("pairing") =>
          \A i, j \in 1..Len(before) :
              SharedReference(before, i, j) =>
                  SameCodesSwapped(rows,
                      process_duplicate_references(SwapRows(before, i, j)), i, j)
    /\ AfterPass("tiebreak") =>
          \A i, j \in 1..Len(before) :
              (SharedReference(before, i, j)
               /\ ~TiedPlaceholders(caseKey, before, i, j)) =>
                  SameCodesSwapped(rows,
                      resolve_duplicate_reference_codes(caseKey,
                          SwapRows(before, i, j)), i, j)

\* C13 (as stated): for two records sharing a reference, each ends with the
\* same code whichever of the two comes first in the file.
C13_OrderIndependent ==
    /\ AfterPass("pairing") =>
          \A i, j \in 1..Len(before) :
              SharedReference(before, i, j) =>
                  SameCodesSwapped(rows,
                      process_duplicate_references(SwapRows(before, i, j)), i, j)
    /\ AfterPass("tiebreak") =>
          \A i, j \in 1..Len(before) :
              SharedReference(before, i, j) =>
                  SameCodesSwapped(rows,
                      resolve_duplicate_reference_codes(caseKey,
                          SwapRows(before, i, j)), i, j)

\* a 3V record placed before its WD partner is paired all the same
C13_Witness ==
    /\ AfterPass("pairing")
    /\ \E i, j \in 1..Len(before) :
          /\ SharedReference(before, i, j)
          /\ code_key(before[i].code) = "3V" /\ code_key(before[j].code) = "WD"
          /\ rows[i].code = "O/D" /\ rows[j].code = "T/D"

\* the records that reach the classification calls
Entering == rows_after_filter(caseKey, extracted, dateRange)

\* positions of a WD record and a 3V record that alone share a reference
WithdrawalPair(rws, i, j) ==
    /\ i # j
    /\ reference_group(rws, i) = {i, j}
    /\ code_key(rws[i].code) = "WD"
    /\ code_key(rws[j].code) = "3V"

\* no call after the pairing re-codes a record with this code, these amounts
\* and this description
KeptByLaterCalls(k, c, row) ==
    /\ OverrideMatches(k, c, row.desc) = {}
    /\ row.code = remap_code(k, row.code, get_positive_debit_code_map(c))
    /\ row.code = remap_code(k, row.code, get_non_negative_credit_code_map(c))

\* the output of a case that has the pairing call is written
Classified ==
    /\ pc = "done" /\ outcome = "artifacts"
    /\ \E n \in 1..Len(PassOrder(caseKey)) : PassOrder(caseKey)[n] = "pairing"

\* C14 (as amended): for a WD record and a 3V record that alone share a
\* reference, the pairing call leaves WD with T/D and 3V with O/D and the
\* description "Comision bancaria " followed by the WD description without
\* its surrounding whitespace; the description is still that in the output,
\* and so are the codes of the records that no later call re-codes.
C14_PairRecodedAndTrimmed ==
    /\ AfterPass("pairing") =>
          \A i, j \in 1..Len(before) :
              WithdrawalPair(before, i, j) =>
                  /\ rows[i].code = "T/D"
                  /\ rows[j].code = "O/D"
                  /\ rows[j].desc = COMMISSION_PREFIX \o Strip(before[i].desc)
    /\ Classified =>
          \A i, j \in 1..Len(Entering) :
              WithdrawalPair(Entering, i, j) =>
                  /\ rendered[j].desc = COMMISSION_PREFIX \o Strip(Entering[i].desc)
                  /\ KeptByLaterCalls(caseKey, cfg, [rendered[i] EXCEPT !.code = "T/D"])
                        => rendered[i].code = "T/D"
                  /\ KeptByLaterCalls(caseKey, cfg, [rendered[j] EXCEPT !.code = "O/D"])
                        => rendered[j].code = "O/D"

\* C14 (as stated): after classification the WD record has T/D, the 3V
\* record has O/D and the description "Comision bancaria " followed by the
\* original description of the WD record.
C14_PairRecoded ==
    Classified =>
        \A i, j \in 1..Len(Entering) :
            WithdrawalPair(Entering, i, j) =>
                /\ rendered[i].code = "T/D"
                /\ rendered[j].code = "O/D"
                /\ rendered[j].desc = COMMISSION_PREFIX \o Entering[i].desc

\* a pair in the output with both codes, whose WD description ended in a
\* blank that the 3V description does not repeat
C14_Witness ==
    /\ Classified
    /\ \E i, j \in 1..Len(Entering) :
          /\ WithdrawalPair(Entering, i, j)
          /\ Strip(Entering[i].desc) # Entering[i].desc
          /\ rendered[i].code = "T/D"
          /\ rendered[j].code = "O/D"
          /\ rendered[j].desc = COMMISSION_PREFIX \o Strip(Entering[i].desc)

\* the members of the PP group of record i that have a debit amount
ValidMembers(k, rws, i) ==
    {j \in pp_group(rws, i) : DebitOf(k, rws[j]) # None}

\* the member with the lowest amount, the first in the file among equals
LowestMember(rws, valid) ==
    CHOOSE a \in valid :
        \A b \in valid :
            \/ rws[a].debit[1] < rws[b].debit[1]
            \/ rws[a].debit[1] = rws[b].debit[1] /\ a <= b

\* the member with the highest amount, the last in the file among equals
HighestMember(rws, valid) ==
    CHOOSE a \in valid :
        \A b \in valid :
            \/ rws[a].debit[1] > rws[b].debit[1]
            \/ rws[a].debit[1] = rws[b].debit[1] /\ a >= b

\* C15: in a group of records sharing a reference and the code PP, of the
\* (two or more) members with a debit amount the one with the lowest amount
\* gets O/D and the one with the highest gets T/D; members with equal
\* amounts are ordered by row position.
C15_LowestAndHighestOfGroup ==
    AfterPass("tiebreak") =>
        \A i \in 1..Len(before) :
            LET valid == ValidMembers(caseKey, before, i)
            IN  Cardinality(valid) >= 2 =>
                    /\ rows[LowestMember(before, valid)].code = "O/D"
                    /\ rows[HighestMember(before, valid)].code = "T/D"

\* two PP records with one reference and equal debit amounts: the first in
\* the file got O/D, the second T/D
C15_Witness ==
    /\ AfterPass("tiebreak")
    /\ \E i, j \in 1..Len(before) :
          /\ i < j
          /\ {i, j} \subseteq ValidMembers(caseKey, before, i)
          /\ before[i].debit = before[j].debit
          /\ rows[i].code = "O/D"
          /\ rows[j].code = "T/D"

----------------------------------------------------------------------------
(* Date filter (claims C16, C17, C18) *)

\* the requested range with its endpoints exchanged
Reversed(range) == <<range[2], range[1]>>

\* C16: the date filter retains exactly the same records for the range
\* (a, b) as for the range (b, a).
C16_FilterIgnoresEndpointOrder ==
    (pc # "filter" /\ dateRange # None) =>
        filter_rows_by_date_range(caseKey, extracted, dateRange)
            = filter_rows_by_date_range(caseKey, extracted, Reversed(dateRange))

\* the date filter has been called and nothing after it has touched the rows
FilterJustRan ==
    \/ pc = "zero_rows"
    \/ pc = "classify" /\ passLog = <<>> /\ caseKey \notin {"case1", "case2"}

\* C17: with no date range requested, the date filter returns exactly the
\* records it was given, in the same order.
C17_NoRangeKeepsAllRows ==
    (FilterJustRan /\ dateRange = None) => rows = extracted

\* case4, which drops a record with an unreadable date when a range is
\* requested, has kept such a record without a range
C17_Witness ==
    /\ FilterJustRan /\ dateRange = None
    /\ caseKey = "case4"
    /\ Len(extracted) = 2
    /\ extracted[1].date # None /\ extracted[2].date = None
    /\ rows = extracted

----------------------------------------------------------------------------
(* Sub-renderers (claim C19) *)

\* the sub-renderer was called, or was about to be, and raises
Failed(s) == s \in failing /\ has_input(s, extracted)

Delivered(s) == \E n \in 1..Len(result_files) : result_files[n] = s

\* C19: when a sub-renderer fails, every other sub-renderer of the
\* attachment that has rows to work on and does not fail still has its
\* file among the files returned.
C19_OtherArtifactsStillReturned ==
    pc = "returned" =>
        \A m, n \in 1..2 :
            LET failed == SubRenderers(caseKey)[m]
                other == SubRenderers(caseKey)[n]
            IN  (m # n /\ Failed(failed)
                 /\ has_input(other, extracted) /\ other \notin failing)
                    => Delivered(other)

----------------------------------------------------------------------------
(* Unrecognized layout (claim C20) *)

\* an output file of the attachment at position n is among processed_files
HasArtifact(n) == \E m \in 1..Len(processed) : processed[m].source = n

\* C20: for a sheet with none of the expected header vocabulary no output
\* file is produced, not even a partial one.
C20_UnrecognizedSheetNoArtifact ==
    \A n \in 1..cursor : batch[n].kind = "unrecognized" => ~HasArtifact(n)

----------------------------------------------------------------------------
(* Header locator (claim C21) *)

\* C21: the selected header row has the highest count of cells matching the
\* target vocabulary among all rows of the sheet, and the scan stops before
\* the last row only at a row whose count is that of the full vocabulary.
C21_HighestMatchCountSelected ==
    pc = "located" =>
        /\ best_row # 0 =>
              \A r \in 1..Len(sheet) :
                  match_count(sheet[r]) <= match_count(sheet[best_row])
        /\ row_idx < Len(sheet) =>
              match_count(sheet[row_idx]) >= Cardinality(target_headers)

----------------------------------------------------------------------------
(* Data region (claim C22) *)

\* the marker row that bounds the region: in case12 a marker in the first
\* data row does not
BoundingMarker ==
    LET m == find_row_with_text(sheet)
    IN  IF caseKey = "case12" /\ m = 1 THEN 0 ELSE m

----------------------------------------------------------------------------
(* Empty-row stop (claim C23) *)

\* rows s .. s + n - 1 of the sheet are all empty
EmptyRun(s, n) == \A t \in s..(s + n - 1) : is_empty_row(sheet[t])

\* a complete run of N empty rows lies above row r
AfterFullRun(r) ==
    \E s \in 1..(r - empty_limit(caseKey)) : EmptyRun(s, empty_limit(caseKey))

Extracted(r) == \E n \in 1..Len(data_rows) : data_rows[n] = r

\* C23: no row below N consecutive empty rows is extracted (N = 2, 3, 5 for
\* case4, case7, case10), while a row with values that no such run precedes
\* is extracted, whatever shorter runs of empty rows lie above it.
C23_StopsAfterEmptyRun ==
    pc = "rows_read" =>
        \A r \in 1..Len(sheet) :
            /\ Extracted(r) => ~AfterFullRun(r) /\ ~is_empty_row(sheet[r])
            /\ (~is_empty_row(sheet[r]) /\ ~is_header_repeat(caseKey, sheet[r])
                 /\ ~AfterFullRun(r)) => Extracted(r)

\* case4: one empty row did not stop the extraction, the two that follow
\* the next transaction did
C23_Witness ==
    /\ pc = "rows_read"
    /\ caseKey = "case4"
    /\ sheet = <<<<"tx">>, <<"">>, <<"tx">>, <<"">>, <<"">>, <<"tx">>>>
    /\ data_rows = <<1, 3>>

----------------------------------------------------------------------------
(* Accounting summary (claims C24, C25) *)

\* C24: a record with both a credit and a debit amount is restated in the
\* summary with its credit amount.
C24_CreditPreferred ==
    pc = "summarized" =>
        \A n \in 1..Len(summary_ws) :
            LET row == rows[summary_ws[n].source]
            IN  (row.debit # None /\ row.credit # None)
                    => summary_ws[n].amount = row.credit[1]

\* the amount of a record is not zero
HasAmount(row) ==
    to_number(row.debit) # 0 \/ to_number(row.credit) # 0

SummaryRowsOf(r) == {n \in 1..Len(summary_ws) : summary_ws[n].source = r}

\* C25: the summary has exactly one row for each record of the final
\* sequence whose amount is not zero, and none for a record whose amount is
\* zero or absent.
C25_OneRowPerNonZeroRecord ==
    pc = "summarized" =>
        \A r \in 1..Len(rows) :
            Cardinality(SummaryRowsOf(r)) = IF HasAmount(rows[r]) THEN 1 ELSE 0

----------------------------------------------------------------------------
(* Configuration seen by one invocation (claim C26) *)

\* C26: all configuration reads of one invocation observe the same
\* configuration, and a configuration saved while the attachment is being
\* processed does not change the rules the remaining passes apply: the
\* classified rows are those of the configuration first read.
C26_OneConfigurationPerInvocation ==
    /\ \A i, j \in 1..Len(config_reads) : config_reads[i] = config_reads[j]
    /\ (pc = "classified" /\ config_reads # <<>>) =>
            rows = ApplyPasses(caseKey, PassOrder(caseKey), extracted, config_reads[1])

----------------------------------------------------------------------------
(* Dispatch by subject (claim C27) *)

\* the words of a text: the maximal runs of characters other than the space
RECURSIVE Words(_, _, _)
Words(text, i, word) ==
    IF i > Len(text) THEN (IF word = <<>> THEN <<>> ELSE <<word>>)
    ELSE IF text[i] = " "
         THEN (IF word = <<>> THEN <<>> ELSE <<word>>) \o Words(text, i + 1, <<>>)
         ELSE Words(text, i + 1, Append(word, text[i]))

\* the case numbers the subject names: a word "caso", in any letter case,
\* followed by a word that is the number
NamedNumbers(subj) ==
    LET words == Words(subj, 1, <<>>)
    IN  {words[n + 1] : n \in {x \in 1..(Len(words) - 1) :
                                  lower(words[x]) = <<"c", "a", "s", "o">>}}

DispatchedCases == {"case1", "case10", "case11", "case12"}

Permitted(m) == allowed_cases = {} \/ m \in allowed_cases

\* C27: with the keywords "caso N", a subject that names case N (N in 1, 10,
\* 11, 12; case N among the permitted cases) is dispatched to case N and to
\* no other case, and a subject that names case 12 is never dispatched to
\* case 1.
C27_SubjectDispatchedToItsCase ==
    pc = "dispatched" =>
        /\ \A m \in DispatchedCases :
              (NamedNumbers(subject) = {case_number(m)} /\ Permitted(m))
                  => matched_case = m
        /\ NamedNumbers(subject) = {case_number("case12")} => matched_case # "case1"

C27_Witness ==
    /\ pc = "dispatched"
    /\ NamedNumbers(subject) = {case_number("case12")}
    /\ Permitted("case12")
    /\ matched_case = "case12"

----------------------------------------------------------------------------
(* Provider code and subtype of a template row (claim C28) *)

Lowest(S) == CHOOSE n \in S : \A m \in S : n <= m

\* the entries whose search text is, letter case aside, a substring of the
\* description
TextHits(entries) ==
    {n \in 1..Len(entries) : Contains(lower(description), lower(entries[n].search_text))}

\* the provider entries the look-up can return: search text and code not
\* empty, search text (stripped in case9) in the description
ProviderHits ==
    LET providers == account_config.providers
    IN  {n \in 1..Len(providers) :
            /\ provider_field(caseKey, providers[n].search_text) # <<>>
            /\ provider_field(caseKey, providers[n].provider_code) # <<>>
            /\ Contains(lower(description),
                        lower(provider_field(caseKey, providers[n].search_text)))}

\* the subtype rules the look-up can return: the three fields not empty,
\* document type of the record, search text in the description
SubtypeHits ==
    LET subtypes == account_config.subtypes
    IN  {n \in 1..Len(subtypes) :
            /\ Strip(subtypes[n].document_type) # <<>>
            /\ Strip(subtypes[n].search_text) # <<>>
            /\ Strip(subtypes[n].subtype_value) # <<>>
            /\ upper(Strip(subtypes[n].document_type)) = upper(Strip(document_type))
            /\ Contains(lower(description), lower(Strip(subtypes[n].search_text)))}

\* C28 as amended: the provider code of a template row is that of the first
\* configured entry with a search text and a code whose search text is in
\* the description; the subtype is that of the first configured rule of the
\* record's document type with all fields filled whose search text is in the
\* description; the field is empty when there is no such entry.
C28_FirstUsableEntryOfTheRecord ==
    /\ pc \in {"payment_row", "bank_row"} =>
          provider_code =
              IF ProviderHits = {} THEN <<>>
              ELSE provider_field(caseKey,
                       account_config.providers[Lowest(ProviderHits)].provider_code)
    /\ pc = "bank_row" =>
          subtype_value =
              IF SubtypeHits = {} THEN <<>>
              ELSE Strip(account_config.subtypes[Lowest(SubtypeHits)].subtype_value)

\* C28: the provider code and the subtype of a template row are those of
\* the first configured entry whose search text is a substring of the
\* description, and empty when no entry matches.
C28_FirstEntryInDescription ==
    /\ pc \in {"payment_row", "bank_row"} =>
          LET hits == TextHits(account_config.providers)
          IN  provider_code =
                  IF hits = {} THEN <<>>
                  ELSE account_config.providers[Lowest(hits)].provider_code
    /\ pc = "bank_row" =>
          LET hits == TextHits(account_config.subtypes)
          IN  subtype_value =
                  IF hits = {} THEN <<>>
                  ELSE account_config.subtypes[Lowest(hits)].subtype_value

\* two rules with the search text of the description, the second one of the
\* record's document type
C28_Witness ==
    /\ pc = "bank_row"
    /\ Cardinality(TextHits(account_config.subtypes)) = 2
    /\ SubtypeHits = {2}
    /\ subtype_value = account_config.subtypes[2].subtype_value

----------------------------------------------------------------------------
(* Monitoring threads (claim C29) *)

Polling == {t \in Threads : monitor_threads[t] = "polling"}

\* C29: at most one monitoring loop is running: after monitoring is stopped
\* and started again, no two monitor threads poll and process the mailbox
\* at the same time.
C29_AtMostOneMonitorPolling == Cardinality(Polling) <= 1

----------------------------------------------------------------------------
(* Messages that matched a case (claim C30) *)

\* the loop is working on message m
InHand(m) ==
    /\ msg_stage \in {"mark", "fetch", "execute", "send"}
    /\ current_message = m

\* C30: no matching message is lost: once the loop has left a message, the
\* message is answered or still unread for a later pass; it is never marked
\* as read without a reply sent for it.
C30_ReadOnlyWhenAnswered ==
    \A m \in 1..Len(mailbox) :
        (mailbox[m].seen /\ ~InHand(m)) => mailbox[m].replied

=============================================================================
